---- MODULE Spec2Model ----
(***************************************************************************)
(* Model of the tic-tac-toe repository: the socket.io session coordinator  *)
(* (server/index.js), the rule evaluator and computer opponent             *)
(* (src/utils/gameLogic.ts), the infinity (eviction) variant               *)
(* (src/utils/infinityMode.ts) and the click handlers of App.tsx.          *)
(***************************************************************************)
EXTENDS Integers, Sequences, FiniteSets, TLC

VARIABLES
    \* ---- server/index.js ----
    connected,      \* io.sockets.sockets: ids of the live connections
    closed,         \* ids whose connection has ended (an id is never reused)
    rooms,          \* const rooms = new Map()         code -> room
    playerToRoom,   \* const playerToRoom = new Map()  socket id -> code
    waitingPlayers, \* const waitingPlayers = []       socket ids waiting for a random match
    socketRooms,    \* socket.rooms of every socket (join order, own id room left out)
    inflight,       \* make_move requests sent by a client and not yet handled
    out,            \* events emitted by the handler that ran last, per receiving socket
    served,         \* answers to the make_move requests handled back to back, oldest first
    \* ---- App.tsx: gameState and the timers of a local game ----
    gameMode,       \* 'ai' | 'friend'
    gameType,       \* 'normal' | 'infinity' | 'ultimate'
    difficulty,     \* gameState.difficulty
    playerSymbol,   \* gameState.playerSymbol
    aiSymbol,       \* gameState.aiSymbol
    board,          \* gameState.board
    boardSize,      \* gameState.boardSize
    currentPlayer,  \* gameState.currentPlayer
    winner,         \* gameState.winner
    winningLine,    \* gameState.winningLine
    aiTimer,        \* the pending setTimeout callbacks for the computer's moves, oldest first
    evaluated,      \* TRUE once checkWinner has been applied to the board under test
    aiIndex,        \* what the last call of getAIMove returned, << >> before any call
    search,         \* a call of minimax: its depth argument and, once returned, its score
    inbox,          \* move_made events delivered to the client and not yet handled by it
    \* ---- infinity variant ----
    moveHistory,        \* gameState.moveHistory: MoveInfo[] {player, index, timestamp}
    nextFadingSymbols,  \* gameState.nextFadingSymbols
    fadingSymbols,      \* fadingSymbols returned by the last processInfinityMove
    now,                \* Date.now()
    placements,         \* every mark placed so far, in order: <<[player, index], ...>>
    \* ---- ultimate variant ----
    ultimateBoard,      \* {boards, activeBoard, winners}
    validMove,          \* validMove returned by the last makeUltimateMove
    lastClick,          \* <<boardIndex, cellIndex>> of the last click handled
    lastMove,           \* <<boardIndex, cellIndex>> of the last accepted move
    ultimateMoves,      \* number of accepted moves
    opened              \* number of those that followed UltimateOpening

serverVars == <<connected, closed, rooms, playerToRoom, waitingPlayers, socketRooms,
                inflight, out, served>>

gameVars == <<gameMode, gameType, difficulty, playerSymbol, aiSymbol, board, boardSize,
              currentPlayer, winner, winningLine, aiTimer, evaluated, aiIndex>>

infinityVars == <<moveHistory, nextFadingSymbols, fadingSymbols, now, placements>>

ultimateVars == <<ultimateBoard, validMove, lastClick, lastMove, ultimateMoves, opened>>

localVars == <<gameVars, infinityVars, ultimateVars>>

auxVars == <<search, inbox>>

vars == <<connected, closed, rooms, playerToRoom, waitingPlayers, socketRooms,
          inflight, out, served,
          gameMode, gameType, difficulty, playerSymbol, aiSymbol, board, boardSize,
          currentPlayer, winner, winningLine, aiTimer, evaluated, aiIndex,
          moveHistory, nextFadingSymbols, fadingSymbols, now, placements,
          ultimateBoard, validMove, lastClick, lastMove, ultimateMoves, opened,
          search, inbox>>

----------------------------------------------------------------------------
(* Values shared by all parts *)

Null == "null"
Players == {"X", "O"}
Other(p) == IF p = "X" THEN "O" ELSE "X"

Min(a, b) == IF a < b THEN a ELSE b
Max(a, b) == IF a > b THEN a ELSE b

Range(s) == {s[i] : i \in DOMAIN s}

\* JavaScript Map operations on a function whose DOMAIN is the key set
MapSet(m, k, v) == [x \in (DOMAIN m) \cup {k} |-> IF x = k THEN v ELSE m[x]]
MapDelete(m, k) == [x \in (DOMAIN m) \ {k} |-> m[x]]
EmptyMap == << >>

\* Array.prototype.filter on a sequence
RECURSIVE SeqFilter(_, _)
SeqFilter(s, keep) ==
    IF s = << >> THEN << >>
    ELSE IF Head(s) \in keep THEN <<Head(s)>> \o SeqFilter(Tail(s), keep)
         ELSE SeqFilter(Tail(s), keep)

----------------------------------------------------------------------------
(* Bounds of the coordinator model *)

MaxCell == 1
MaxInflight == 2

Sockets == {"s1", "s2", "s3"}
RoomCodes == {"R1"}
\* codes nanoid(6) hands out for random matches
MatchCodes == {"M1"}
Codes == RoomCodes \cup MatchCodes
BoardLen == 9
Cells == 0..(BoardLen - 1)
\* positions a client puts in a make_move request: some board cells and an out-of-range index
Positions == (0..MaxCell) \cup {BoardLen}

EmptyBoard == [i \in Cells |-> Null]

----------------------------------------------------------------------------
(* server/index.js *)

NoEmits == [t \in Sockets |-> << >>]

\* socket.emit(ev): one event to the socket itself
EmitTo(o, s, ev) == [o EXCEPT ![s] = Append(@, ev)]

\* a broadcast that misses one member of the room
RoomMembersButOne(code) ==
    LET members == {t \in connected : code \in Range(socketRooms[t])}
    IN IF members = {} THEN {} ELSE members \ {CHOOSE t \in members : TRUE}

\* members of the socket.io room `code`
RoomMembers(code) == {t \in connected : code \in Range(socketRooms[t])}

\* io.to(code).emit(ev) / socket.to(code).emit(ev): one event to each receiver
EmitAll(o, receivers, ev) == [t \in Sockets |-> IF t \in receivers THEN Append(o[t], ev) ELSE o[t]]

\* socket.join(code): a Set, so joining twice keeps one entry
SocketJoin(sr, s, code) ==
    IF code \in Range(sr[s]) THEN sr ELSE [sr EXCEPT ![s] = Append(@, code)]

\* socket.leave(code)
SocketLeave(sr, s, code) ==
    [sr EXCEPT ![s] = SeqFilter(@, Codes \ {code})]

ErrorEv(msg) == [type |-> "error", msg |-> msg]

PlayerIds(room) == {room.players[i].id : i \in DOMAIN room.players}

\* room.players.findIndex(p => p.id === id), 0 when absent (indices are 1-based here)
RECURSIVE FindIndexFrom(_, _, _)
FindIndexFrom(ps, ids, i) ==
    IF i > Len(ps) THEN 0
    ELSE IF ps[i].id \in ids THEN i
    ELSE FindIndexFrom(ps, ids, i + 1)

FindPlayer(room, id) == room.players[FindIndexFrom(room.players, {id}, 1)]

\* the win/draw detection written inline in the make_move handler
ServerRowWin(b) ==
    IF      b[0] # Null /\ b[0] = b[1] /\ b[0] = b[2] THEN b[0]
    ELSE IF b[3] # Null /\ b[3] = b[4] /\ b[3] = b[5] THEN b[3]
    ELSE IF b[6] # Null /\ b[6] = b[7] /\ b[6] = b[8] THEN b[6]
    ELSE Null

ServerColWin(b) ==
    IF      b[0] # Null /\ b[0] = b[3] /\ b[0] = b[6] THEN b[0]
    ELSE IF b[1] # Null /\ b[1] = b[4] /\ b[1] = b[7] THEN b[1]
    ELSE IF b[2] # Null /\ b[2] = b[5] /\ b[2] = b[8] THEN b[2]
    ELSE Null

ServerDiagWin(b) ==
    IF      b[0] # Null /\ b[0] = b[4] /\ b[0] = b[8] THEN b[0]
    ELSE IF b[2] # Null /\ b[2] = b[4] /\ b[2] = b[6] THEN b[2]
    ELSE Null

\* winner after the checks of the handler: a mark, "draw", or Null (gameOver false)
\* a result check without the draw test
ServerWinnerNoDraw(b) ==
    IF ServerRowWin(b) # Null THEN ServerRowWin(b)
    ELSE IF ServerColWin(b) # Null THEN ServerColWin(b)
    ELSE ServerDiagWin(b)

ServerWinner(b) ==
    IF ServerRowWin(b) # Null THEN ServerRowWin(b)
    ELSE IF ServerColWin(b) # Null THEN ServerColWin(b)
    ELSE IF ServerDiagWin(b) # Null THEN ServerDiagWin(b)
    ELSE IF \A i \in Cells : b[i] # Null THEN "draw"
    ELSE Null

ServerInit ==
    /\ connected = {}
    /\ closed = {}
    /\ rooms = EmptyMap
    /\ playerToRoom = EmptyMap
    /\ waitingPlayers = << >>
    /\ socketRooms = [s \in Sockets |-> << >>]
    /\ inflight = EmptyMap
    /\ out = NoEmits
    /\ served = << >>

\* io.on('connection'): a client connects under a fresh socket id
Connect(s) ==
    /\ s \notin connected
    /\ s \notin closed
    /\ connected' = connected \cup {s}
    /\ out' = NoEmits
    /\ served' = << >>
    /\ UNCHANGED <<closed, rooms, playerToRoom, waitingPlayers, socketRooms, inflight>>

\* socket.on('create_room')
CreateRoom(s, roomCode) ==
    /\ s \in connected
    /\ rooms' = MapSet(rooms, roomCode,
                       [players |-> <<[id |-> s, symbol |-> "X"]>>,
                        currentTurn |-> "X",
                        board |-> EmptyBoard])
    /\ socketRooms' = SocketJoin(socketRooms, s, roomCode)
    /\ playerToRoom' = MapSet(playerToRoom, s, roomCode)
    /\ out' = EmitTo(NoEmits, s, [type |-> "room_created", roomCode |-> roomCode])
    /\ served' = << >>
    /\ UNCHANGED <<connected, closed, waitingPlayers, inflight>>

GameStartEv(roomCode, symbol, currentTurn, players) ==
    [type |-> "game_start", roomCode |-> roomCode, playerSymbol |-> symbol,
     currentTurn |-> currentTurn, players |-> players]

\* for (const player of room.players) { playerSocket.emit('game_start', ...) }
RECURSIVE EmitStartToPlayers(_, _, _, _)
EmitStartToPlayers(o, roomCode, players, i) ==
    IF i > Len(players) THEN o
    ELSE LET p == players[i]
             o2 == IF p.id \in connected
                   THEN EmitTo(o, p.id, GameStartEv(roomCode, p.symbol, "X", players))
                   ELSE o
         IN EmitStartToPlayers(o2, roomCode, players, i + 1)

\* socket.on('join_room'), request without a room code
JoinRoomNoCode(s) ==
    /\ s \in connected
    /\ out' = EmitTo(NoEmits, s, ErrorEv("Room code is required"))
    /\ served' = << >>
    /\ UNCHANGED <<connected, closed, rooms, playerToRoom, waitingPlayers, socketRooms, inflight>>

\* socket.on('join_room'), room absent
JoinRoomNotFound(s, roomCode) ==
    /\ s \in connected
    /\ roomCode \notin DOMAIN rooms
    /\ out' = EmitTo(NoEmits, s, ErrorEv("Room not found"))
    /\ served' = << >>
    /\ UNCHANGED <<connected, closed, rooms, playerToRoom, waitingPlayers, socketRooms, inflight>>

\* a search that takes the first slot for dead whatever its socket
InactivePlayerIndexAny(players) == 1

\* room.players.findIndex(p => socket of p.id is missing or not connected), 0 for -1
InactivePlayerIndex(players) == FindIndexFrom(players, Sockets \ connected, 1)

\* a replacement that always takes the first mark
ReplacementPlayerX(s, replacedPlayer) == [id |-> s, symbol |-> "X"]

\* room.players[inactivePlayerIndex] = { id: socket.id, symbol: replacedPlayer.symbol }
ReplacementPlayer(s, replacedPlayer) == [id |-> s, symbol |-> replacedPlayer.symbol]

\* socket.on('join_room'), room with two slots: reconnect, replacement or 'Room is full'
JoinRoomFull(s, roomCode) ==
    /\ s \in connected
    /\ roomCode \in DOMAIN rooms
    /\ Len(rooms[roomCode].players) >= 2
    /\ LET room == rooms[roomCode]
           inactivePlayerIndex == InactivePlayerIndex(room.players)
       IN IF s \in PlayerIds(room)
          THEN /\ socketRooms' = SocketJoin(socketRooms, s, roomCode)
               /\ out' = EmitTo(NoEmits, s,
                                GameStartEv(roomCode, FindPlayer(room, s).symbol,
                                            room.currentTurn, room.players))
               /\ UNCHANGED <<rooms, playerToRoom>>
          ELSE IF inactivePlayerIndex # 0
          THEN LET replacedPlayer == room.players[inactivePlayerIndex]
                   newPlayers == [room.players EXCEPT ![inactivePlayerIndex] =
                                     ReplacementPlayer(s, replacedPlayer)]
               IN /\ rooms' = [rooms EXCEPT ![roomCode].players = newPlayers]
                  /\ socketRooms' = SocketJoin(socketRooms, s, roomCode)
                  /\ playerToRoom' = MapSet(playerToRoom, s, roomCode)
                  /\ out' = EmitTo(NoEmits, s,
                                   GameStartEv(roomCode, replacedPlayer.symbol,
                                               room.currentTurn, newPlayers))
          ELSE /\ out' = EmitTo(NoEmits, s, ErrorEv("Room is full"))
               /\ UNCHANGED <<rooms, playerToRoom, socketRooms>>
    /\ served' = << >>
    /\ UNCHANGED <<connected, closed, waitingPlayers, inflight>>

\* socket.on('join_room'), room with fewer than two slots: the requester is added
JoinRoomAdd(s, roomCode) ==
    /\ s \in connected
    /\ roomCode \in DOMAIN rooms
    /\ Len(rooms[roomCode].players) < 2
    /\ LET room == rooms[roomCode]
           joinSymbol == IF room.players[1].symbol = "X" THEN "O" ELSE "X"
           newPlayers == Append(room.players, [id |-> s, symbol |-> joinSymbol])
           sr == SocketJoin(socketRooms, s, roomCode)
           receivers == {t \in connected : roomCode \in Range(sr[t])}
           o1 == EmitAll(NoEmits, receivers, GameStartEv(roomCode, Null, "X", newPlayers))
       IN /\ rooms' = [rooms EXCEPT ![roomCode].players = newPlayers]
          /\ socketRooms' = sr
          /\ playerToRoom' = MapSet(playerToRoom, s, roomCode)
          /\ out' = EmitStartToPlayers(o1, roomCode, newPlayers, 1)
    /\ served' = << >>
    /\ UNCHANGED <<connected, closed, waitingPlayers, inflight>>

JoinRoom(s, roomCode) ==
    \/ JoinRoomNotFound(s, roomCode)
    \/ JoinRoomFull(s, roomCode)
    \/ JoinRoomAdd(s, roomCode)

\* the client emits make_move {position, symbol, board}; the request travels to the server
SendMakeMoveData(s, data) ==
    /\ s \in connected
    /\ s \notin DOMAIN inflight
    /\ Cardinality(DOMAIN inflight) < MaxInflight
    /\ inflight' = MapSet(inflight, s, data)
    /\ served' = << >>
    /\ out' = NoEmits
    /\ UNCHANGED <<connected, closed, rooms, playerToRoom, waitingPlayers, socketRooms>>

\* socketInstance.emit('make_move', { position, symbol, board }) by the player with the
\* first mark
SendMakeMove(s, position) ==
    SendMakeMoveData(s, [position |-> position, symbol |-> "X", board |-> "X"])

\* answer of the make_move handler for a request it rejects
\* what the handler saw and answered: requester, its room and mark, the active mark,
\* whether the requested cell was in range and empty, and the answer
ServedEntry(s, res, roomCode, mark) ==
    [id |-> s, res |-> res, room |-> roomCode, mark |-> mark, data |-> inflight[s],
     turn |-> IF roomCode \in DOMAIN rooms THEN rooms[roomCode].currentTurn ELSE Null,
     legal |-> /\ roomCode \in DOMAIN rooms
               /\ inflight[s].position \in Cells
               /\ rooms[roomCode].board[inflight[s].position] = Null]

\* a slip that would send the rejection to the whole room instead of the requester
MoveRejectedBroadcast(s, msg, roomCode, mark) ==
    /\ out' = EmitAll(NoEmits, {s} \cup RoomMembers(roomCode), ErrorEv(msg))
    /\ served' = Append(served, ServedEntry(s, msg, roomCode, mark))
    /\ UNCHANGED rooms

MoveRejected(s, msg, roomCode, mark) ==
    /\ out' = EmitTo(NoEmits, s, ErrorEv(msg))
    /\ served' = Append(served, ServedEntry(s, msg, roomCode, mark))
    /\ UNCHANGED rooms

\* a handler that forgets the turn check
TurnCheckSkipped(room, player) == TRUE


\* is it the requester's turn?  room.currentTurn !== player.symbol rejects
TurnCheck(room, player) == room.currentTurn = player.symbol

\* position >= 0 && position < 9 && room.board[position] === null
CellCheck(room, position) ==
    /\ position >= 0
    /\ position < 9
    /\ room.board[position] = Null

\* a turn that stays with the mover
NextTurnSame(symbol) == symbol

\* room.currentTurn = player.symbol === 'X' ? 'O' : 'X'
NextTurn(symbol) == IF symbol = "X" THEN "O" ELSE "X"

\* a handler that trusts the symbol field of the request
MoveSymbolFromRequest(player, data) == data.symbol

\* the mark the handler writes and reports: player.symbol, whatever data holds
MoveSymbol(player, data) == player.symbol

\* socket.on('make_move'): the handler runs to completion on one request
MakeMove(s) ==
    /\ s \in connected
    /\ s \in DOMAIN inflight
    /\ inflight' = MapDelete(inflight, s)
    /\ LET position == inflight[s].position
       IN IF s \notin DOMAIN playerToRoom
          THEN MoveRejected(s, "Not in any room", Null, Null)
          ELSE IF playerToRoom[s] \notin DOMAIN rooms
          THEN MoveRejected(s, "Room not found", Null, Null)
          ELSE IF s \notin PlayerIds(rooms[playerToRoom[s]])
          THEN MoveRejected(s, "Player not found in room", Null, Null)
          ELSE LET roomCode == playerToRoom[s]
                   room == rooms[roomCode]
                   player == FindPlayer(room, s)
               IN IF ~TurnCheck(room, player)
                  THEN MoveRejected(s, "Not your turn", roomCode, player.symbol)
                  ELSE IF ~CellCheck(room, position)
                  THEN MoveRejected(s, "Invalid move", roomCode, player.symbol)
                  ELSE LET mark == MoveSymbol(player, inflight[s])
                           newBoard == [room.board EXCEPT ![position] = mark]
                           newTurn == NextTurn(mark)
                           result == ServerWinner(newBoard)
                           o1 == EmitAll(NoEmits, RoomMembers(roomCode),
                                         [type |-> "move_made", position |-> position,
                                          symbol |-> mark, board |-> newBoard,
                                          currentTurn |-> newTurn])
                       IN /\ rooms' = [rooms EXCEPT ![roomCode].board = newBoard,
                                                    ![roomCode].currentTurn = newTurn]
                          /\ out' = IF result # Null
                                    THEN EmitAll(o1, RoomMembers(roomCode),
                                                 [type |-> "game_over", winner |-> result])
                                    ELSE o1
                          /\ served' = Append(served, ServedEntry(s, "applied", roomCode,
                                                                  player.symbol))
    /\ UNCHANGED <<connected, closed, playerToRoom, waitingPlayers, socketRooms>>

\* const leaveRoom = (socket, roomCode) => { ... }: new rooms, socket.rooms and emits
LeaveRoomRooms(s, roomCode) ==
    IF roomCode \notin DOMAIN rooms THEN rooms
    ELSE LET room == rooms[roomCode]
             remainingPlayers == SeqFilter(room.players,
                                           {p \in Range(room.players) : p.id # s})
         IN IF Len(remainingPlayers) = 0
            THEN MapDelete(rooms, roomCode)
            ELSE [rooms EXCEPT ![roomCode].players = remainingPlayers]

LeaveRoomEmits(s, roomCode) ==
    IF roomCode \notin DOMAIN rooms THEN NoEmits
    ELSE EmitAll(NoEmits, RoomMembers(roomCode) \ {s}, [type |-> "player_left"])

LeaveRoomSocketRooms(sr, s, roomCode) ==
    IF roomCode \notin DOMAIN rooms THEN sr ELSE SocketLeave(sr, s, roomCode)

\* socket.on('leave_room'): the first joined room of the socket, if any
LeaveRoom(s) ==
    /\ s \in connected
    /\ IF Len(socketRooms[s]) > 0
       THEN LET roomCode == socketRooms[s][1]
            IN /\ rooms' = LeaveRoomRooms(s, roomCode)
               /\ out' = LeaveRoomEmits(s, roomCode)
               /\ socketRooms' = LeaveRoomSocketRooms(socketRooms, s, roomCode)
       ELSE /\ out' = NoEmits
            /\ UNCHANGED <<rooms, socketRooms>>
    /\ served' = << >>
    /\ UNCHANGED <<connected, closed, playerToRoom, waitingPlayers, inflight>>

\* socket.on('disconnect'): socket.io has already removed the socket from its rooms
Disconnect(s) ==
    /\ s \in connected
    /\ connected' = connected \ {s}
    /\ closed' = closed \cup {s}
    /\ socketRooms' = [socketRooms EXCEPT ![s] = << >>]
    /\ inflight' = MapDelete(inflight, s)
    /\ served' = << >>
    /\ waitingPlayers' = SeqFilter(waitingPlayers, Sockets \ {s})
    /\ IF s \in DOMAIN playerToRoom
       THEN LET roomCode == playerToRoom[s]
            IN /\ rooms' = LeaveRoomRooms(s, roomCode)
               /\ out' = IF roomCode \notin DOMAIN rooms THEN NoEmits
                         ELSE EmitAll(NoEmits,
                                      {t \in connected' : roomCode \in Range(socketRooms'[t])},
                                      [type |-> "player_left"])
               /\ playerToRoom' = MapDelete(playerToRoom, s)
       ELSE /\ out' = NoEmits
            /\ UNCHANGED <<rooms, playerToRoom>>

\* socket.on('find_random_match'), requester already in the waiting list
FindMatchAlreadyWaiting(s) ==
    /\ s \in connected
    /\ s \in Range(waitingPlayers)
    /\ out' = EmitTo(NoEmits, s, [type |-> "waiting_for_match"])
    /\ served' = << >>
    /\ UNCHANGED <<connected, closed, rooms, playerToRoom, waitingPlayers, socketRooms, inflight>>

\* waitingPlayers.filter(id => socket of id exists and is connected)
connectedWaitingPlayers == SeqFilter(waitingPlayers, connected)

\* socket.on('find_random_match'), nobody else waiting: the requester is queued
FindMatchWait(s) ==
    /\ s \in connected
    /\ s \notin Range(waitingPlayers)
    /\ Len(connectedWaitingPlayers) = 0
    /\ waitingPlayers' = Append(connectedWaitingPlayers, s)
    /\ out' = EmitTo(NoEmits, s, [type |-> "waiting_for_match"])
    /\ served' = << >>
    /\ UNCHANGED <<connected, closed, rooms, playerToRoom, socketRooms, inflight>>

\* a pairing that hands the first mark to the requester
MatchPlayersSwapped(opponentId, s) ==
    <<[id |-> opponentId, symbol |-> "O"], [id |-> s, symbol |-> "X"]>>

\* players: [{ id: opponentId, symbol: 'X' }, { id: socket.id, symbol: 'O' }]
MatchPlayers(opponentId, s) ==
    <<[id |-> opponentId, symbol |-> "X"], [id |-> s, symbol |-> "O"]>>

\* socket.on('find_random_match'), somebody waiting: a room for the two under a new code
FindMatchPair(s, roomCode) ==
    /\ s \in connected
    /\ s \notin Range(waitingPlayers)
    /\ Len(connectedWaitingPlayers) > 0
    /\ roomCode \notin DOMAIN rooms
    /\ \A t \in Sockets : roomCode \notin Range(socketRooms[t])
    /\ LET opponentId == Head(connectedWaitingPlayers)
           players == MatchPlayers(opponentId, s)
       IN /\ waitingPlayers' = Tail(connectedWaitingPlayers)
          /\ rooms' = MapSet(rooms, roomCode,
                             [players |-> players, currentTurn |-> "X", board |-> EmptyBoard])
          /\ socketRooms' = SocketJoin(SocketJoin(socketRooms, s, roomCode),
                                       opponentId, roomCode)
          /\ playerToRoom' = MapSet(MapSet(playerToRoom, s, roomCode), opponentId, roomCode)
          /\ out' = EmitTo(EmitTo(NoEmits, s, GameStartEv(roomCode, "O", "X", players)),
                           opponentId, GameStartEv(roomCode, "X", "X", players))
    /\ served' = << >>
    /\ UNCHANGED <<connected, closed, inflight>>

FindRandomMatch(s) ==
    \/ FindMatchAlreadyWaiting(s)
    \/ FindMatchWait(s)
    \/ \E roomCode \in MatchCodes : FindMatchPair(s, roomCode)

\* socket.on('cancel_random_match')
CancelRandomMatch(s) ==
    /\ s \in connected
    /\ waitingPlayers' = SeqFilter(waitingPlayers, Sockets \ {s})
    /\ out' = NoEmits
    /\ served' = << >>
    /\ UNCHANGED <<connected, closed, rooms, playerToRoom, socketRooms, inflight>>

ServerNext ==
    \/ \E s \in Sockets : Connect(s)
    \/ \E s \in Sockets, c \in RoomCodes : CreateRoom(s, c)
    \/ \E s \in Sockets : JoinRoomNoCode(s)
    \/ \E s \in Sockets, c \in RoomCodes : JoinRoom(s, c)
    \/ \E s \in Sockets, p \in Positions : SendMakeMove(s, p)
    \/ \E s \in Sockets : MakeMove(s)
    \/ \E s \in Sockets : LeaveRoom(s)
    \/ \E s \in Sockets : Disconnect(s)

----------------------------------------------------------------------------
(* src/utils/gameLogic.ts *)

WINNING_COMBINATIONS ==
    << <<0, 1, 2>>, <<3, 4, 5>>, <<6, 7, 8>>,
       <<0, 3, 6>>, <<1, 4, 7>>, <<2, 5, 8>>,
       <<0, 4, 8>>, <<2, 4, 6>> >>

\* a table with a mistyped anti-diagonal
WINNING_COMBINATIONS_4X4_Typo ==
    << <<0, 1, 2, 3>>, <<4, 5, 6, 7>>, <<8, 9, 10, 11>>, <<12, 13, 14, 15>>,
       <<0, 4, 8, 12>>, <<1, 5, 9, 13>>, <<2, 6, 10, 14>>, <<3, 7, 11, 15>>,
       <<0, 5, 10, 15>>, <<3, 6, 9, 13>> >>

WINNING_COMBINATIONS_4X4 ==
    << <<0, 1, 2, 3>>, <<4, 5, 6, 7>>, <<8, 9, 10, 11>>, <<12, 13, 14, 15>>,
       <<0, 4, 8, 12>>, <<1, 5, 9, 13>>, <<2, 6, 10, 14>>, <<3, 7, 11, 15>>,
       <<0, 5, 10, 15>>, <<3, 6, 9, 12>> >>

WINNING_COMBINATIONS_5X5 ==
    << <<0, 1, 2, 3, 4>>, <<5, 6, 7, 8, 9>>, <<10, 11, 12, 13, 14>>,
       <<15, 16, 17, 18, 19>>, <<20, 21, 22, 23, 24>>,
       <<0, 5, 10, 15, 20>>, <<1, 6, 11, 16, 21>>, <<2, 7, 12, 17, 22>>,
       <<3, 8, 13, 18, 23>>, <<4, 9, 14, 19, 24>>,
       <<0, 6, 12, 18, 24>>, <<4, 8, 12, 16, 20>> >>

getWinningCombinations(size) ==
    IF size = "3x3" THEN WINNING_COMBINATIONS
    ELSE IF size = "4x4" THEN WINNING_COMBINATIONS_4X4
    ELSE IF size = "5x5" THEN WINNING_COMBINATIONS_5X5
    ELSE WINNING_COMBINATIONS

\* board[first] && rest.every(pos => board[pos] === board[first])
ComboComplete(b, combo) ==
    /\ b[combo[1]] # Null
    /\ \A k \in 2..Len(combo) : b[combo[k]] = b[combo[1]]

\* for (const combo of combinations): index of the first complete combination, 0 if none
RECURSIVE FirstComplete(_, _, _)
FirstComplete(b, combos, k) ==
    IF k > Len(combos) THEN 0
    ELSE IF ComboComplete(b, combos[k]) THEN k
    ELSE FirstComplete(b, combos, k + 1)

checkWinner(b, size) ==
    LET combinations == getWinningCombinations(size)
        k == FirstComplete(b, combinations, 1)
    IN IF k # 0
       THEN [winner |-> b[combinations[k][1]], line |-> combinations[k]]
       ELSE IF \A i \in DOMAIN b : b[i] # Null
       THEN [winner |-> "draw", line |-> Null]
       ELSE [winner |-> Null, line |-> Null]

\* stands for Infinity: larger than every score, which lie in -10..10
Infinity == 1000

\* board[i] = null omitted after the recursive call
UndoCellSkipped(b, i) == b
\* board[i] = null after the recursive call
UndoCell(b, i) == [b EXCEPT ![i] = Null]

\* minimax works on the array it is given: a call is modelled by the score it returns
\* and the contents of the array when it returns
RECURSIVE minimax(_, _, _, _, _, _)
RECURSIVE MaximizingLoop(_, _, _, _, _, _, _)
RECURSIVE MinimizingLoop(_, _, _, _, _, _, _)

\* the for loop of the maximizing branch, from index i on
MaximizingLoop(b, depth, i, maxEval, alpha, beta, size) ==
    IF i \notin DOMAIN b THEN [score |-> maxEval, board |-> b]
    ELSE IF b[i] # Null THEN MaximizingLoop(b, depth, i + 1, maxEval, alpha, beta, size)
    ELSE LET call == minimax([b EXCEPT ![i] = "O"], depth + 1, FALSE, alpha, beta, size)
             evalScore == call.score
             undone == UndoCell(call.board, i)
             newMax == Max(maxEval, evalScore)
             newAlpha == Max(alpha, evalScore)
         IN IF beta <= newAlpha THEN [score |-> newMax, board |-> undone]
            ELSE MaximizingLoop(undone, depth, i + 1, newMax, newAlpha, beta, size)

\* the for loop of the minimizing branch, from index i on
MinimizingLoop(b, depth, i, minEval, alpha, beta, size) ==
    IF i \notin DOMAIN b THEN [score |-> minEval, board |-> b]
    ELSE IF b[i] # Null THEN MinimizingLoop(b, depth, i + 1, minEval, alpha, beta, size)
    ELSE LET call == minimax([b EXCEPT ![i] = "X"], depth + 1, TRUE, alpha, beta, size)
             evalScore == call.score
             undone == UndoCell(call.board, i)
             newMin == Min(minEval, evalScore)
             newBeta == Min(beta, evalScore)
         IN IF newBeta <= alpha THEN [score |-> newMin, board |-> undone]
            ELSE MinimizingLoop(undone, depth, i + 1, newMin, alpha, newBeta, size)

minimax(b, depth, isMaximizing, alpha, beta, size) ==
    LET w == checkWinner(b, size).winner
    IN IF w = "O" THEN [score |-> 10 - depth, board |-> b]
       ELSE IF w = "X" THEN [score |-> depth - 10, board |-> b]
       ELSE IF w = "draw" THEN [score |-> 0, board |-> b]
       ELSE IF isMaximizing
       THEN MaximizingLoop(b, depth, 0, -Infinity, alpha, beta, size)
       ELSE MinimizingLoop(b, depth, 0, Infinity, alpha, beta, size)

\* board.reduce(...): the empty cells in index order
RECURSIVE AvailableFrom(_, _)
AvailableFrom(b, i) ==
    IF i \notin DOMAIN b THEN << >>
    ELSE IF b[i] = Null THEN <<i>> \o AvailableFrom(b, i + 1)
    ELSE AvailableFrom(b, i + 1)

availableMoves(b) == AvailableFrom(b, 0)

\* "Try to win or block": the first available move, in index order, at which O would win
\* or at which X would win; -1 when the loop ends without returning
RECURSIVE WinOrBlock(_, _, _, _)
WinOrBlock(b, moves, k, size) ==
    IF k > Len(moves) THEN -1
    ELSE IF checkWinner([b EXCEPT ![moves[k]] = "O"], size).winner = "O" THEN moves[k]
    ELSE IF checkWinner([b EXCEPT ![moves[k]] = "X"], size).winner = "X" THEN moves[k]
    ELSE WinOrBlock(b, moves, k + 1, size)

\* a comparison that also lets an equal score replace the best move
ScoreImprovesOrTies(score, bestScore) == score >= bestScore
\* if (score > bestScore)
ScoreImproves(score, bestScore) == score > bestScore

\* the minimax loop of getAIMove: first move whose score is strictly greater wins
RECURSIVE BestMoveLoop(_, _, _, _, _, _)
BestMoveLoop(b, moves, k, bestScore, bestMove, size) ==
    IF k > Len(moves) THEN bestMove
    ELSE LET score == minimax([b EXCEPT ![moves[k]] = "O"], 0, FALSE,
                              -Infinity, Infinity, size).score
         IN IF ScoreImproves(score, bestScore)
            THEN BestMoveLoop(b, moves, k + 1, score, moves[k], size)
            ELSE BestMoveLoop(b, moves, k + 1, bestScore, bestMove, size)

MinimaxBestMove(b, size) ==
    BestMoveLoop(b, availableMoves(b), 1, -Infinity, availableMoves(b)[1], size)

centerIndex(size) ==
    IF size = "3x3" THEN 4 ELSE IF size = "4x4" THEN 5 ELSE IF size = "5x5" THEN 12 ELSE 4

\* the tail of getAIMove: the center if free, otherwise any available cell
CenterOrRandom(b, size) ==
    IF centerIndex(size) \in DOMAIN b /\ b[centerIndex(size)] = Null
    THEN {centerIndex(size)}
    ELSE Range(availableMoves(b))

\* a fast path that never finds a forced move
ForcedMoveNone(b, moves, size) == -1

\* for (const move of availableMoves) { win test, block test }: the returned move, -1 if
\* the loop falls through
ForcedMove(b, moves, size) == WinOrBlock(b, moves, 1, size)

\* a god tier that sometimes takes the fallback of the hard tier
GodMovesRandom(b, size) == {MinimaxBestMove(b, size)} \cup CenterOrRandom(b, size)

\* if (difficulty === 'god') { ... return bestMove }
GodMoves(b, size) == {MinimaxBestMove(b, size)}

\* getAIMove: the set of indices the call can return (one per outcome of Math.random)
getAIMove(b, diff, size) ==
    LET moves == availableMoves(b)
        forced == ForcedMove(b, moves, size)
        smart == IF forced # -1 THEN {forced}
                 ELSE IF diff = "god" THEN GodMoves(b, size)
                 ELSE IF diff = "hard" THEN {MinimaxBestMove(b, size)} \cup CenterOrRandom(b, size)
                 ELSE CenterOrRandom(b, size)
    IN IF Len(moves) = 0 THEN {-1}
       ELSE IF diff = "easy" THEN Range(moves)
       ELSE IF diff = "medium" THEN Range(moves) \cup smart
       ELSE smart

\* activeBoard: null ("any board can be played") is written Free
Free == -1

\* initializeUltimateBoard()
initializeUltimateBoard ==
    [boards |-> [b \in 0..8 |-> [c \in 0..8 |-> Null]],
     activeBoard |-> Free,
     winners |-> [b \in 0..8 |-> Null]]

\* a meta-board entry counted as a mark without the test against 'draw'
MetaBoardMarkOrDraw(result) == result # Null
\* metaBoard[a] && metaBoard[a] !== 'draw'
MetaBoardMark(result) == result # Null /\ result # "draw"

\* the first meta-board line held by one player, from position k of the table on
RECURSIVE FirstMetaLine(_, _)
FirstMetaLine(metaBoard, k) ==
    IF k > Len(WINNING_COMBINATIONS) THEN 0
    ELSE LET a == WINNING_COMBINATIONS[k][1]
             b == WINNING_COMBINATIONS[k][2]
             c == WINNING_COMBINATIONS[k][3]
         IN IF /\ MetaBoardMark(metaBoard[a])
               /\ metaBoard[a] = metaBoard[b]
               /\ metaBoard[a] = metaBoard[c]
            THEN k
            ELSE FirstMetaLine(metaBoard, k + 1)

\* checkUltimateWinner(ultimateBoard)
checkUltimateWinner(ub) ==
    LET metaBoard == ub.winners
        k == FirstMetaLine(metaBoard, 1)
    IN IF k # 0
       THEN [winner |-> metaBoard[WINNING_COMBINATIONS[k][1]], line |-> WINNING_COMBINATIONS[k]]
       ELSE IF \A i \in DOMAIN metaBoard : metaBoard[i] # Null
       THEN [winner |-> "draw", line |-> Null]
       ELSE [winner |-> Null, line |-> Null]

\* the validity test without the look at winners[boardIndex]
UltimateMoveInvalidNoWinners(ub, boardIndex, cellIndex) ==
    \/ (ub.activeBoard # Free /\ ub.activeBoard # boardIndex)
    \/ ub.boards[boardIndex][cellIndex] # Null

\* the validity test at the head of makeUltimateMove
UltimateMoveInvalid(ub, boardIndex, cellIndex) ==
    \/ (ub.activeBoard # Free /\ ub.activeBoard # boardIndex)
    \/ ub.winners[boardIndex] # Null
    \/ ub.boards[boardIndex][cellIndex] # Null

\* a result written after every move
NewWinnersEager(winners, boardIndex, result) ==
    [winners EXCEPT ![boardIndex] = IF result # Null THEN result ELSE "draw"]

\* const newWinners = [...winners]; if (winner) newWinners[boardIndex] = winner
NewWinners(winners, boardIndex, result) ==
    IF result # Null THEN [winners EXCEPT ![boardIndex] = result] ELSE winners

\* the pointer always set to the cell index
NextActiveBoardAlways(newWinners, cellIndex) == cellIndex

\* let nextActiveBoard = cellIndex; if (newWinners[nextActiveBoard] !== null) nextActiveBoard = null
NextActiveBoard(newWinners, cellIndex) ==
    IF newWinners[cellIndex] # Null THEN Free ELSE cellIndex

\* a result that overlooks a full sub-board without a line
SubBoardResultNoDraw(subBoard) ==
    IF checkWinner(subBoard, "3x3").winner = "draw" THEN Null
    ELSE checkWinner(subBoard, "3x3").winner

\* const { winner } = checkWinner(board, '3x3')
SubBoardResult(subBoard) == checkWinner(subBoard, "3x3").winner

\* makeUltimateMove(ultimateBoard, boardIndex, cellIndex, player)
makeUltimateMove(ub, boardIndex, cellIndex, player) ==
    IF UltimateMoveInvalid(ub, boardIndex, cellIndex)
    THEN [newBoard |-> ub, validMove |-> FALSE]
    ELSE LET subBoard == [ub.boards[boardIndex] EXCEPT ![cellIndex] = player]
             newBoards == [ub.boards EXCEPT ![boardIndex] = subBoard]
             newWinners == NewWinners(ub.winners, boardIndex, SubBoardResult(subBoard))
         IN [newBoard |-> [boards |-> newBoards,
                           activeBoard |-> NextActiveBoard(newWinners, cellIndex),
                           winners |-> newWinners],
             validMove |-> TRUE]

----------------------------------------------------------------------------
(* Boards handed to checkWinner *)

MaxOverlays == 1
MaxEmptied == 2
MaxTimers == 2
Difficulties == {"easy", "medium", "hard", "god"}

BoardSizes == {"3x3", "4x4", "5x5"}
SizeNum(size) == IF size = "4x4" THEN 4 ELSE IF size = "5x5" THEN 5 ELSE 3

\* rows, columns and the two diagonals of an n x n board, as cell sequences
GridLines(n) ==
    {[k \in 1..n |-> r * n + (k - 1)] : r \in 0..(n - 1)}
    \cup {[k \in 1..n |-> (k - 1) * n + c] : c \in 0..(n - 1)}
    \cup {[k \in 1..n |-> (k - 1) * n + (k - 1)], [k \in 1..n |-> (k - 1) * n + (n - k)]}

\* backgrounds: the empty board and two full boards without a complete line
Background(n, kind) ==
    [i \in 0..(n * n - 1) |->
        IF kind = "empty" THEN Null
        ELSE IF ((((i \div n) \div 2) + (i % n)) % 2 = 0) = (kind = "a") THEN "X" ELSE "O"]

\* line L written with mark m, its cell number `hole` (0: none) holding hv instead
Overlay(b, L, m, hole, hv) ==
    [i \in DOMAIN b |->
        IF \E k \in DOMAIN L : L[k] = i
        THEN IF \E k \in DOMAIN L : L[k] = i /\ k = hole THEN hv ELSE m
        ELSE b[i]]

\* what may be written over a background
Overlays(n) ==
    {[line |-> L, mark |-> m, hole |-> hole, hv |-> hv] :
        L \in GridLines(n), m \in Players, hole \in 0..n, hv \in {Null, "X", "O"}}

RECURSIVE ApplyOverlays(_, _)
ApplyOverlays(b, ovs) ==
    IF ovs = << >> THEN b
    ELSE ApplyOverlays(Overlay(b, Head(ovs).line, Head(ovs).mark, Head(ovs).hole, Head(ovs).hv),
                       Tail(ovs))

\* every 3x3 board; 4x4 and 5x5 boards made of a background and lines written over it
IsInputBoard(b, size) ==
    IF size = "3x3" THEN b \in [0..8 -> {"X", "O", Null}]
    ELSE \E kind \in {"empty", "a", "b"}, k \in 0..MaxOverlays :
            \E ovs \in [1..k -> Overlays(SizeNum(size))] :
                b = ApplyOverlays(Background(SizeNum(size), kind), ovs)

\* const { winner, line } = checkWinner(board, boardSize)
EvaluateBoard ==
    /\ ~evaluated
    /\ evaluated' = TRUE
    /\ winner' = checkWinner(board, boardSize).winner
    /\ winningLine' = checkWinner(board, boardSize).line
    /\ UNCHANGED <<gameMode, gameType, difficulty, playerSymbol, aiSymbol, board, boardSize,
                   currentPlayer, aiTimer, aiIndex>>

----------------------------------------------------------------------------
(* App.tsx: a local game against the computer on the flat board *)

BoardOf(size) ==
    IF size = "4x4" THEN [i \in 0..15 |-> Null]
    ELSE IF size = "5x5" THEN [i \in 0..24 |-> Null]
    ELSE [i \in 0..8 |-> Null]

\* startGame('ai', {difficulty, gameType: 'normal', playerSymbol: 'X'})
StartAIGame(diff) ==
    /\ gameMode = "ai"
    /\ gameType = "normal"
    /\ difficulty = diff
    /\ playerSymbol = "X"
    /\ aiSymbol = "O"
    /\ boardSize = "3x3"
    /\ board = BoardOf("3x3")
    /\ currentPlayer = "X"
    /\ winner = Null
    /\ winningLine = Null
    /\ aiTimer = << >>
    /\ evaluated = FALSE
    /\ aiIndex = << >>

\* handleCellClick(index), gameMode 'ai', normal game
HumanClick(index) ==
    /\ gameMode = "ai"
    /\ gameType = "normal"
    /\ board[index] = Null
    /\ winner = Null
    /\ playerSymbol = currentPlayer
    /\ LET boardCopy == [board EXCEPT ![index] = currentPlayer]
           r == checkWinner(boardCopy, boardSize)
       IN /\ board' = boardCopy
          /\ IF r.winner # Null
             THEN /\ winner' = r.winner
                  /\ winningLine' = r.line
                  /\ UNCHANGED <<currentPlayer, aiTimer>>
             ELSE /\ currentPlayer' = aiSymbol
                  /\ aiTimer' = Append(aiTimer, "move")
                  /\ UNCHANGED <<winner, winningLine>>
    /\ UNCHANGED <<gameMode, gameType, difficulty, playerSymbol, aiSymbol, boardSize, evaluated, aiIndex>>

\* a caller that applies whatever getAIMove returned
AIMoveUsableAlways(b, index) == TRUE

\* if (aiIndex >= 0 && currentBoard[aiIndex] === null)
AIMoveUsable(b, index) == index >= 0 /\ b[index] = Null

\* the setTimeout callback scheduled by handleCellClick: the computer's move
AITimerFires ==
    /\ aiTimer # << >>
    /\ Head(aiTimer) = "move"
    /\ aiTimer' = Tail(aiTimer)
    /\ \E index \in getAIMove(board, difficulty, boardSize) :
          /\ aiIndex' = <<index>>
          /\ IF AIMoveUsable(board, index)
             THEN LET currentBoard == [board EXCEPT ![index] = aiSymbol]
                      r == checkWinner(currentBoard, boardSize)
                  IN /\ board' = currentBoard
                     /\ IF r.winner # Null
                        THEN /\ winner' = r.winner
                             /\ winningLine' = r.line
                             /\ UNCHANGED currentPlayer
                        ELSE /\ currentPlayer' = playerSymbol
                             /\ UNCHANGED <<winner, winningLine>>
             ELSE UNCHANGED <<board, currentPlayer, winner, winningLine>>
    /\ UNCHANGED <<gameMode, gameType, difficulty, playerSymbol, aiSymbol, boardSize, evaluated>>

\* startGame('ai', {difficulty, gameType: 'normal'}) with the O mark selected by the
\* human: the computer's first move as X is scheduled
StartAIGameSecond(diff) ==
    /\ gameMode = "ai"
    /\ gameType = "normal"
    /\ difficulty = diff
    /\ playerSymbol = "O"
    /\ aiSymbol = "X"
    /\ boardSize = "3x3"
    /\ board = BoardOf("3x3")
    /\ currentPlayer = "X"
    /\ winner = Null
    /\ winningLine = Null
    /\ aiTimer = <<"first">>
    /\ evaluated = FALSE
    /\ aiIndex = << >>

\* resetGame() in an AI game of the normal type
ResetGame ==
    /\ gameMode = "ai"
    /\ gameType = "normal"
    /\ LET aiTurn == playerSymbol = "O"
       IN /\ board' = BoardOf(boardSize)
          /\ currentPlayer' = (IF aiTurn THEN "X" ELSE "O")
          /\ winner' = Null
          /\ winningLine' = Null
          /\ aiTimer' = (IF aiTurn THEN Append(aiTimer, "first") ELSE aiTimer)
    /\ UNCHANGED <<gameMode, gameType, difficulty, playerSymbol, aiSymbol, boardSize,
                   evaluated, aiIndex>>

\* the setTimeout callback of startGame and resetGame: the computer's first move as X on
\* the empty board it was scheduled with
FirstMoveTimerFires ==
    /\ aiTimer # << >>
    /\ Head(aiTimer) = "first"
    /\ aiTimer' = Tail(aiTimer)
    /\ \E aiMove \in getAIMove(BoardOf(boardSize), difficulty, boardSize) :
          /\ aiIndex' = <<aiMove>>
          /\ IF aiMove # -1
             THEN /\ board' = [BoardOf(boardSize) EXCEPT ![aiMove] = "X"]
                  /\ currentPlayer' = "O"
             ELSE UNCHANGED <<board, currentPlayer>>
    /\ UNCHANGED <<gameMode, gameType, difficulty, playerSymbol, aiSymbol, boardSize,
                   winner, winningLine, evaluated>>

\* startGame('friend', {gameType: 'normal'})
StartFriendGame ==
    /\ gameMode = "friend"
    /\ gameType = "normal"
    /\ difficulty = Null
    /\ playerSymbol = Null
    /\ aiSymbol = Null
    /\ boardSize = "3x3"
    /\ board = BoardOf("3x3")
    /\ currentPlayer = "X"
    /\ winner = Null
    /\ winningLine = Null
    /\ aiTimer = << >>
    /\ evaluated = FALSE
    /\ aiIndex = << >>

\* handleCellClick(index), gameMode 'friend', normal game
FriendClick(index) ==
    /\ gameMode = "friend"
    /\ gameType = "normal"
    /\ boardSize = "3x3"
    /\ board[index] = Null
    /\ winner = Null
    /\ LET boardCopy == [board EXCEPT ![index] = currentPlayer]
           r == checkWinner(boardCopy, boardSize)
       IN /\ board' = boardCopy
          /\ IF r.winner # Null
             THEN /\ winner' = r.winner
                  /\ winningLine' = r.line
                  /\ UNCHANGED currentPlayer
             ELSE /\ currentPlayer' = (IF currentPlayer = "X" THEN "O" ELSE "X")
                  /\ UNCHANGED <<winner, winningLine>>
    /\ UNCHANGED <<gameMode, gameType, difficulty, playerSymbol, aiSymbol, boardSize,
                   aiTimer, evaluated, aiIndex>>

----------------------------------------------------------------------------
(* infinityMode.ts and the infinity branch of App.tsx *)

MaxInfCell == 6
MaxInfMoves == 9
MaxEvictCell == 4
MaxEvictCalls == 5

\* moveHistory.filter(move => move.player === player)
RECURSIVE MovesOf(_, _)
MovesOf(h, player) ==
    IF h = << >> THEN << >>
    ELSE IF Head(h).player = player THEN <<Head(h)>> \o MovesOf(Tail(h), player)
    ELSE MovesOf(Tail(h), player)

\* the most recent entry instead of the oldest
NewestMove(moves) == moves[Len(moves)]

\* playerMoves.sort((a, b) => a.timestamp - b.timestamp)[0]; the sort is stable
OldestMove(moves) ==
    moves[CHOOSE i \in DOMAIN moves :
            \A j \in DOMAIN moves :
                /\ moves[i].timestamp <= moves[j].timestamp
                /\ j < i => moves[j].timestamp > moves[i].timestamp]

\* a cap of four marks
OverflowsAtFive(moves) == Len(moves) > 4

\* playerMoves.length > 3
Overflows(moves) == Len(moves) > 3

\* newMoveHistory.filter(move => !(move.index === oldestMove.index && move.player === player))
RECURSIVE RemoveMove(_, _, _)
RemoveMove(h, index, player) ==
    IF h = << >> THEN << >>
    ELSE IF Head(h).index = index /\ Head(h).player = player
    THEN RemoveMove(Tail(h), index, player)
    ELSE <<Head(h)>> \o RemoveMove(Tail(h), index, player)

\* a history that is not filtered by player
PlayerMovesAll(h, player) == h

\* const playerMoves = newMoveHistory.filter(move => move.player === player)
PlayerMoves(h, player) == MovesOf(h, player)

\* a preview that waits for a fourth mark
WillFadeAtFour(moves) == Len(moves) >= 4

\* nextPlayerMoves.length >= 3
WillFade(moves) == Len(moves) >= 3

\* an eviction that forgets the board
RemoveSymbolSkipped(b, index) == b

\* boardCopy[oldestMove.index] = null
RemoveSymbol(b, index) == [b EXCEPT ![index] = Null]

\* processInfinityMove(board, index, player, moveHistory), Date.now() returning ts
processInfinityMove(b, index, player, h, ts) ==
    LET boardCopy == [b EXCEPT ![index] = player]
        newMove == [player |-> player, index |-> index, timestamp |-> ts]
        added == Append(h, newMove)
        playerMoves == PlayerMoves(added, player)
        overflow == Overflows(playerMoves)
        oldestMove == OldestMove(playerMoves)
        newMoveHistory == IF overflow THEN RemoveMove(added, oldestMove.index, player)
                          ELSE added
        nextPlayerMoves == MovesOf(newMoveHistory, Other(player))
    IN [board |-> IF overflow THEN RemoveSymbol(boardCopy, oldestMove.index)
                  ELSE boardCopy,
        moveHistory |-> newMoveHistory,
        fadingSymbols |-> IF overflow THEN <<oldestMove.index>> ELSE << >>,
        nextFadingSymbols |-> IF WillFade(nextPlayerMoves)
                              THEN <<OldestMove(nextPlayerMoves).index>>
                              ELSE << >>]

\* startGame('friend', {gameType: 'infinity'})
StartInfinityGame ==
    /\ gameMode = "friend"
    /\ gameType = "infinity"
    /\ difficulty = Null
    /\ playerSymbol = Null
    /\ aiSymbol = Null
    /\ boardSize = "3x3"
    /\ board = BoardOf("3x3")
    /\ currentPlayer = "X"
    /\ winner = Null
    /\ winningLine = Null
    /\ aiTimer = << >>
    /\ evaluated = FALSE
    /\ aiIndex = << >>
    /\ moveHistory = << >>
    /\ nextFadingSymbols = << >>
    /\ fadingSymbols = << >>
    /\ now = 0
    /\ placements = << >>

\* the terminal check run on the board as it was before the eviction
EvaluatedBeforeEviction(boardCopy, updatedBoard) == boardCopy

\* checkWinner(updatedBoard, gameState.boardSize): the board the terminal check reads
EvaluatedBoard(boardCopy, updatedBoard) == updatedBoard

\* handleCellClick(index), gameMode 'friend', infinity game
InfinityClick(index) ==
    /\ gameMode = "friend"
    /\ gameType = "infinity"
    /\ Len(placements) < MaxInfMoves
    /\ board[index] = Null
    /\ winner = Null
    /\ now' = now + 1
    /\ LET player == currentPlayer
           boardCopy == [board EXCEPT ![index] = player]
           r == processInfinityMove(boardCopy, index, player, moveHistory, now')
           res == checkWinner(EvaluatedBoard(boardCopy, r.board), boardSize)
       IN /\ board' = r.board
          /\ moveHistory' = r.moveHistory
          /\ nextFadingSymbols' = r.nextFadingSymbols
          /\ placements' = Append(placements, [player |-> player, index |-> index])
          /\ IF res.winner # Null
             THEN /\ winner' = res.winner
                  /\ winningLine' = res.line
                  /\ UNCHANGED currentPlayer
             ELSE /\ currentPlayer' = Other(currentPlayer)
                  /\ UNCHANGED <<winner, winningLine>>
    /\ UNCHANGED <<gameMode, gameType, difficulty, playerSymbol, aiSymbol, boardSize,
                   aiTimer, evaluated, aiIndex, fadingSymbols>>

\* processInfinityMove called on its own previous result, for either player
EvictCall(index, player) ==
    /\ Len(placements) < MaxEvictCalls
    /\ board[index] = Null
    /\ now' \in {now, now + 1}
    /\ LET r == processInfinityMove(board, index, player, moveHistory, now')
       IN /\ board' = r.board
          /\ moveHistory' = r.moveHistory
          /\ fadingSymbols' = r.fadingSymbols
          /\ nextFadingSymbols' = r.nextFadingSymbols
    /\ placements' = Append(placements, [player |-> player, index |-> index])
    /\ UNCHANGED <<gameMode, gameType, difficulty, playerSymbol, aiSymbol, boardSize,
                   currentPlayer, winner, winningLine, aiTimer, evaluated, aiIndex>>

----------------------------------------------------------------------------
(* App.tsx: a local two-player game of the ultimate variant *)

MaxUltIndex == 2
MaxUltMoves == 6

\* a line of play that fills every cell of sub-board 0 but cell 0, completing no line
UltimateOpening ==
    << <<0, 3>>, <<3, 0>>, <<0, 7>>, <<7, 0>>, <<0, 5>>, <<5, 0>>, <<0, 2>>,
       <<2, 8>>, <<8, 0>>, <<0, 4>>, <<4, 0>>, <<0, 6>>, <<6, 0>>, <<0, 8>>,
       <<8, 6>>, <<6, 6>>, <<6, 2>>, <<2, 5>>, <<5, 3>>, <<3, 1>>, <<1, 0>>,
       <<0, 1>> >>

OnOpening == opened = ultimateMoves /\ opened < Len(UltimateOpening)

\* the clicks tried: the opening, or any cell of the first sub-boards
ClickInputs ==
    (IF OnOpening THEN {UltimateOpening[opened + 1]} ELSE {})
    \cup (IF (OnOpening /\ opened > 0) \/ ultimateMoves - opened >= MaxUltMoves
          THEN {}
          ELSE (0..MaxUltIndex) \X (0..MaxUltIndex))

\* startGame('friend', {boardSize: 'ultimate'})
StartUltimateGame ==
    /\ gameMode = "friend"
    /\ gameType = "normal"
    /\ difficulty = Null
    /\ playerSymbol = Null
    /\ aiSymbol = Null
    /\ boardSize = "ultimate"
    /\ board = BoardOf("ultimate")
    /\ currentPlayer = "X"
    /\ winner = Null
    /\ winningLine = Null
    /\ aiTimer = << >>
    /\ evaluated = FALSE
    /\ aiIndex = << >>
    /\ ultimateBoard = initializeUltimateBoard
    /\ validMove = TRUE
    /\ lastClick = << >>
    /\ lastMove = << >>
    /\ ultimateMoves = 0
    /\ opened = 0

\* handleUltimateCellClick(boardIndex, cellIndex)
UltimateClick(boardIndex, cellIndex) ==
    /\ boardSize = "ultimate"
    /\ winner = Null
    /\ lastClick' = <<boardIndex, cellIndex>>
    /\ LET r == makeUltimateMove(ultimateBoard, boardIndex, cellIndex, currentPlayer)
           w == checkUltimateWinner(r.newBoard).winner
       IN /\ validMove' = r.validMove
          /\ IF ~r.validMove
             THEN UNCHANGED <<ultimateBoard, currentPlayer, winner, winningLine,
                              lastMove, ultimateMoves, opened>>
             ELSE /\ ultimateBoard' = r.newBoard
                  /\ lastMove' = <<boardIndex, cellIndex>>
                  /\ ultimateMoves' = ultimateMoves + 1
                  /\ opened' = IF OnOpening /\ <<boardIndex, cellIndex>> = UltimateOpening[opened + 1]
                               THEN opened + 1 ELSE opened
                  /\ IF w # Null
                     THEN /\ winner' = w
                          /\ winningLine' = Null
                          /\ UNCHANGED currentPlayer
                     ELSE /\ currentPlayer' = Other(currentPlayer)
                          /\ UNCHANGED <<winner, winningLine>>
    /\ UNCHANGED <<gameMode, gameType, difficulty, playerSymbol, aiSymbol, board, boardSize,
                   aiTimer, evaluated, aiIndex>>

----------------------------------------------------------------------------
(* Specifications *)

\* values of the variables of the parts a specification does not exercise
ServerIdle ==
    /\ connected = {}
    /\ closed = {}
    /\ rooms = EmptyMap
    /\ playerToRoom = EmptyMap
    /\ waitingPlayers = << >>
    /\ socketRooms = [s \in Sockets |-> << >>]
    /\ inflight = EmptyMap
    /\ out = NoEmits
    /\ served = << >>

GameIdle ==
    /\ gameMode = Null
    /\ gameType = Null
    /\ difficulty = Null
    /\ playerSymbol = Null
    /\ aiSymbol = Null
    /\ board = BoardOf("3x3")
    /\ boardSize = "3x3"
    /\ currentPlayer = "X"
    /\ winner = Null
    /\ winningLine = Null
    /\ aiTimer = << >>
    /\ evaluated = FALSE
    /\ aiIndex = << >>

InfinityIdle ==
    /\ moveHistory = << >>
    /\ nextFadingSymbols = << >>
    /\ fadingSymbols = << >>
    /\ now = 0
    /\ placements = << >>

UltimateIdle ==
    /\ ultimateBoard = initializeUltimateBoard
    /\ validMove = TRUE
    /\ lastClick = << >>
    /\ lastMove = << >>
    /\ ultimateMoves = 0
    /\ opened = 0

\* no call of minimax under test, no event waiting at the client
NoSearch == [depth |-> 0, isMaximizing |-> FALSE, score |-> << >>]
AuxIdle ==
    /\ search = NoSearch
    /\ inbox = << >>

\* the coordinator serving its clients
Init == ServerInit /\ GameIdle /\ InfinityIdle /\ UltimateIdle /\ AuxIdle
Next == ServerNext /\ UNCHANGED <<localVars, auxVars>>
Spec == Init /\ [][Next]_vars

\* a 3x3 game of the human (X) against the god tier (O)
GodInit == ServerIdle /\ StartAIGame("god") /\ InfinityIdle /\ UltimateIdle /\ AuxIdle
GodNext ==
    \/ \E index \in 0..8 : HumanClick(index) /\ UNCHANGED <<auxVars, serverVars, infinityVars, ultimateVars>>
    \/ AITimerFires /\ UNCHANGED <<auxVars, serverVars, infinityVars, ultimateVars>>
SpecGod == GodInit /\ [][GodNext]_vars

\* a room with its two participants, as left by create_room, join_room and a
\* cancel_random_match (which emits nothing)
RoomReady ==
    /\ connected = {"s1", "s2"}
    /\ closed = {}
    /\ rooms = MapSet(EmptyMap, "R1",
                      [players |-> <<[id |-> "s1", symbol |-> "X"], [id |-> "s2", symbol |-> "O"]>>,
                       currentTurn |-> "X",
                       board |-> EmptyBoard])
    /\ playerToRoom = MapSet(MapSet(EmptyMap, "s1", "R1"), "s2", "R1")
    /\ waitingPlayers = << >>
    /\ socketRooms = [s \in Sockets |-> IF s \in {"s1", "s2"} THEN <<"R1">> ELSE << >>]
    /\ inflight = EmptyMap
    /\ out = NoEmits
    /\ served = << >>

\* one game played to the end and beyond: in a room of the coordinator, one request at a
\* time over every cell, or locally between two players at one screen
PlayInit ==
    /\ InfinityIdle /\ UltimateIdle /\ AuxIdle
    /\ \/ RoomReady /\ GameIdle
       \/ ServerIdle /\ StartFriendGame
PlayNext ==
    \/ \E s \in Sockets, p \in Cells \cup {BoardLen} :
          inflight = EmptyMap /\ SendMakeMove(s, p) /\ UNCHANGED <<localVars, auxVars>>
    \/ \E s \in Sockets : MakeMove(s) /\ UNCHANGED <<localVars, auxVars>>
    \/ \E index \in Cells :
          FriendClick(index) /\ UNCHANGED <<auxVars, serverVars, infinityVars, ultimateVars>>
SpecPlay == PlayInit /\ [][PlayNext]_vars

\* the coordinator with matchmaking: rooms by code and by random match, one move request
\* at a time on the first cells
LobbyServerNext ==
    \/ \E s \in Sockets : Connect(s)
    \/ \E s \in Sockets, c \in RoomCodes : CreateRoom(s, c)
    \/ \E s \in Sockets, c \in RoomCodes : JoinRoom(s, c)
    \/ \E s \in Sockets : FindRandomMatch(s)
    \/ \E s \in Sockets : CancelRandomMatch(s)
    \/ \E s \in Sockets : LeaveRoom(s)
    \/ \E s \in Sockets : Disconnect(s)
LobbyNext == LobbyServerNext /\ UNCHANGED <<localVars, auxVars>>
SpecLobby == Init /\ [][LobbyNext]_vars

\* the cells asked for while participants come and go: a corner and the center
RejoinCells == {0, 4}

\* a game in a room while a third client is connected: moves one request at a time,
\* random matches, joins and disconnections
RejoinInit ==
    /\ RoomReady!2 /\ RoomReady!3 /\ RoomReady!4 /\ RoomReady!5 /\ RoomReady!6
    /\ RoomReady!7 /\ RoomReady!8 /\ RoomReady!9
    /\ connected = Sockets
    /\ GameIdle /\ InfinityIdle /\ UltimateIdle /\ AuxIdle
RejoinServerNext ==
    \/ \E s \in Sockets, p \in RejoinCells : inflight = EmptyMap /\ SendMakeMove(s, p)
    \/ \E s \in Sockets : MakeMove(s)
    \/ \E s \in Sockets, c \in RoomCodes : JoinRoom(s, c)
    \/ \E s \in Sockets : FindRandomMatch(s)
    \/ \E s \in Sockets : Disconnect(s)
RejoinNext == RejoinServerNext /\ UNCHANGED <<localVars, auxVars>>
SpecRejoin == RejoinInit /\ [][RejoinNext]_vars

\* the inputs of getAIMove: every 3x3 board; 4x4 and 5x5 boards that are a full board
\* without a complete line from which at most MaxEmptied cells other than cell 0 are
\* cleared
IsAIInputBoard(b, size) ==
    IF size = "3x3" THEN b \in [0..8 -> {"X", "O", Null}]
    ELSE \E kind \in {"a", "b"},
            cleared \in [1..MaxEmptied -> 0..(SizeNum(size) * SizeNum(size) - 1)] :
            b = [i \in DOMAIN Background(SizeNum(size), kind) |->
                    IF i \in Range(cleared) /\ i # 0
                    THEN Null ELSE Background(SizeNum(size), kind)[i]]

\* the computer's move on every board and tier: the callback of the AI timer applied to
\* each input of getAIMove
AIMoveInit ==
    /\ ServerIdle /\ InfinityIdle /\ UltimateIdle /\ AuxIdle
    /\ gameMode = "ai"
    /\ gameType = "normal"
    /\ difficulty \in Difficulties
    /\ playerSymbol = "X"
    /\ aiSymbol = "O"
    /\ currentPlayer = "O"
    /\ winner = Null
    /\ winningLine = Null
    /\ aiTimer = <<"move">>
    /\ evaluated = FALSE
    /\ aiIndex = << >>
    /\ \E size \in BoardSizes :
          /\ boardSize = size
          /\ IsAIInputBoard(board, size)
AIMoveNext == AITimerFires /\ UNCHANGED <<auxVars, serverVars, infinityVars, ultimateVars>>
SpecAIMove == AIMoveInit /\ [][AIMoveNext]_vars

\* the tiers that answer without a minimax search
TimerDifficulties == {"easy", "medium"}

\* games against the computer with either mark, restarted at any moment; at most
\* MaxTimers callbacks are pending at a time
AITimerInit ==
    /\ ServerIdle /\ InfinityIdle /\ UltimateIdle /\ AuxIdle
    /\ \E diff \in TimerDifficulties : StartAIGame(diff) \/ StartAIGameSecond(diff)
AITimerNext ==
    \/ \E index \in 0..8 :
          /\ Len(aiTimer) < MaxTimers
          /\ HumanClick(index)
          /\ UNCHANGED <<auxVars, serverVars, infinityVars, ultimateVars>>
    \/ AITimerFires /\ UNCHANGED <<auxVars, serverVars, infinityVars, ultimateVars>>
    \/ /\ Len(aiTimer) < MaxTimers
       /\ ResetGame
       /\ UNCHANGED <<auxVars, serverVars, infinityVars, ultimateVars>>
    \/ FirstMoveTimerFires /\ UNCHANGED <<auxVars, serverVars, infinityVars, ultimateVars>>
SpecAITimer == AITimerInit /\ [][AITimerNext]_vars

\* a local two-player game of the infinity variant
InfinityInit == ServerIdle /\ StartInfinityGame /\ UltimateIdle /\ AuxIdle
InfinityNext ==
    \E index \in 0..MaxInfCell : InfinityClick(index) /\ UNCHANGED <<auxVars, serverVars, ultimateVars>>
SpecInfinity == InfinityInit /\ [][InfinityNext]_vars

\* processInfinityMove applied repeatedly, starting from the empty board
EvictInit == ServerIdle /\ StartInfinityGame /\ UltimateIdle /\ AuxIdle
EvictNext ==
    \E index \in 0..MaxEvictCell, player \in Players :
        EvictCall(index, player) /\ UNCHANGED <<auxVars, serverVars, ultimateVars>>
SpecEvict == EvictInit /\ [][EvictNext]_vars

\* a local two-player game of the ultimate variant
UltimateInit == ServerIdle /\ StartUltimateGame /\ InfinityIdle /\ AuxIdle
UltimateNext ==
    \E click \in ClickInputs :
        UltimateClick(click[1], click[2]) /\ UNCHANGED <<auxVars, serverVars, infinityVars>>
SpecUltimate == UltimateInit /\ [][UltimateNext]_vars

\* checkWinner applied to boards of the three sizes
CheckInit ==
    /\ ServerIdle /\ InfinityIdle /\ UltimateIdle /\ AuxIdle
    /\ gameMode = "friend"
    /\ gameType = "normal"
    /\ difficulty = Null
    /\ playerSymbol = Null
    /\ aiSymbol = Null
    /\ currentPlayer = "X"
    /\ winner = Null
    /\ winningLine = Null
    /\ aiTimer = << >>
    /\ evaluated = FALSE
    /\ aiIndex = << >>
    /\ \E size \in BoardSizes :
          /\ boardSize = size
          /\ IsInputBoard(board, size)
CheckNext == EvaluateBoard /\ UNCHANGED <<auxVars, serverVars, infinityVars, ultimateVars>>
SpecCheck == CheckInit /\ [][CheckNext]_vars

\* checkUltimateWinner applied to the meta-boards handleUltimateCellClick can hand it:
\* the click handler returns at once while gameState.winner is set, so a meta-board
\* never holds lines of both marks
MetaResults == {Null, "X", "O", "draw"}
MetaLineOf(metaBoard, m) ==
    \E k \in DOMAIN WINNING_COMBINATIONS :
        \A j \in 1..3 : metaBoard[WINNING_COMBINATIONS[k][j]] = m
IsMetaInput(metaBoard) ==
    /\ metaBoard \in [0..8 -> MetaResults]
    /\ ~(MetaLineOf(metaBoard, "X") /\ MetaLineOf(metaBoard, "O"))

\* const { winner } = checkUltimateWinner(newBoard)
EvaluateMetaBoard ==
    /\ ~evaluated
    /\ evaluated' = TRUE
    /\ winner' = checkUltimateWinner(ultimateBoard).winner
    /\ winningLine' = checkUltimateWinner(ultimateBoard).line
    /\ UNCHANGED <<gameMode, gameType, difficulty, playerSymbol, aiSymbol, board, boardSize,
                   currentPlayer, aiTimer, aiIndex>>

MetaInit ==
    /\ ServerIdle /\ InfinityIdle /\ AuxIdle
    /\ gameMode = "friend"
    /\ gameType = "normal"
    /\ difficulty = Null
    /\ playerSymbol = Null
    /\ aiSymbol = Null
    /\ boardSize = "ultimate"
    /\ board = BoardOf("ultimate")
    /\ currentPlayer = "X"
    /\ winner = Null
    /\ winningLine = Null
    /\ aiTimer = << >>
    /\ evaluated = FALSE
    /\ aiIndex = << >>
    /\ validMove = TRUE
    /\ lastClick = << >>
    /\ lastMove = << >>
    /\ ultimateMoves = 0
    /\ opened = 0
    /\ \E metaBoard \in [0..8 -> MetaResults] :
          /\ IsMetaInput(metaBoard)
          /\ ultimateBoard = [initializeUltimateBoard EXCEPT !.winners = metaBoard]
MetaNext == EvaluateMetaBoard /\ UNCHANGED <<auxVars, serverVars, infinityVars, ultimateVars>>
SpecMeta == MetaInit /\ [][MetaNext]_vars

----------------------------------------------------------------------------
(* App.tsx: a game played through the coordinator, seen from one client *)

\* startGame(gameMode, {roomCode, playerSymbol, roomStatus: 'playing'}) on game_start
StartRemoteGame(symbol) ==
    /\ gameMode = "online"
    /\ gameType = "normal"
    /\ difficulty = Null
    /\ playerSymbol = (IF symbol = "O" THEN "O" ELSE "X")
    /\ aiSymbol = Null
    /\ boardSize = "3x3"
    /\ board = BoardOf("3x3")
    /\ currentPlayer = "X"
    /\ winner = Null
    /\ winningLine = Null
    /\ aiTimer = << >>
    /\ evaluated = FALSE
    /\ aiIndex = << >>

\* the connection of the client, which holds the mark game_start gave it
RemoteSocket == (CHOOSE p \in Range(rooms["R1"].players) : p.symbol = playerSymbol).id

\* handleCellClick(index), gameMode 'online': the move is shown at once and, unless it
\* ends the game on the client's board, sent to the coordinator
RemoteClick(index) ==
    /\ gameMode = "online"
    /\ board[index] = Null
    /\ winner = Null
    /\ playerSymbol = currentPlayer
    /\ LET boardCopy == [board EXCEPT ![index] = currentPlayer]
           r == checkWinner(boardCopy, boardSize)
       IN /\ board' = boardCopy
          /\ IF r.winner # Null
             THEN /\ winner' = r.winner
                  /\ winningLine' = r.line
                  /\ UNCHANGED currentPlayer
                  /\ UNCHANGED serverVars
             ELSE /\ currentPlayer' = (IF currentPlayer = "X" THEN "O" ELSE "X")
                  /\ UNCHANGED <<winner, winningLine>>
                  /\ SendMakeMoveData(RemoteSocket,
                                      [position |-> index, symbol |-> playerSymbol,
                                       board |-> currentPlayer])
    /\ UNCHANGED <<gameMode, gameType, difficulty, playerSymbol, aiSymbol, boardSize,
                   aiTimer, evaluated, aiIndex, search, inbox>>

\* the coordinator handles a make_move; the move_made it emits to the client's
\* connection is delivered
RemoteMakeMove(s) ==
    /\ MakeMove(s)
    /\ inbox' = inbox \o SeqFilter(out'[RemoteSocket],
                                    {e \in Range(out'[RemoteSocket]) : e.type = "move_made"})
    /\ UNCHANGED <<gameVars, search>>

\* socket.on('move_made', handleOpponentMove)
handleOpponentMove ==
    /\ inbox # << >>
    /\ LET data == Head(inbox)
       IN /\ board' = [board EXCEPT ![data.position] = data.symbol]
          /\ currentPlayer' = (IF playerSymbol # Null THEN playerSymbol ELSE "X")
    /\ inbox' = Tail(inbox)
    /\ UNCHANGED <<gameMode, gameType, difficulty, playerSymbol, aiSymbol, boardSize,
                   winner, winningLine, aiTimer, evaluated, aiIndex, search>>
    /\ UNCHANGED serverVars

\* the cells clicked in a game through the coordinator: the top row
RemoteCells == {0, 1, 2}

\* a room with its two participants; the client of one of them is followed, the other
\* participant sends its requests at any time
RemoteInit ==
    /\ RoomReady /\ InfinityIdle /\ UltimateIdle /\ AuxIdle
    /\ \E symbol \in Players : StartRemoteGame(symbol)
RemoteNext ==
    \/ \E index \in RemoteCells :
          RemoteClick(index) /\ UNCHANGED <<infinityVars, ultimateVars>>
    \/ \E s \in Sockets, p \in RemoteCells :
          /\ s # RemoteSocket
          /\ SendMakeMove(s, p)
          /\ UNCHANGED <<localVars, auxVars>>
    \/ \E s \in Sockets : RemoteMakeMove(s) /\ UNCHANGED <<infinityVars, ultimateVars>>
    \/ handleOpponentMove /\ UNCHANGED <<infinityVars, ultimateVars>>
SpecRemote == RemoteInit /\ [][RemoteNext]_vars

\* a room with its two participants whose clients send any symbol and board fields
\* with their requests, one request at a time
RequestInit == RoomReady /\ GameIdle /\ InfinityIdle /\ UltimateIdle /\ AuxIdle
RequestServerNext ==
    \/ \E s \in Sockets, p \in RemoteCells, symbol \in Players, b \in Players :
          /\ inflight = EmptyMap
          /\ SendMakeMoveData(s, [position |-> p, symbol |-> symbol, board |-> b])
    \/ \E s \in Sockets : MakeMove(s)
RequestNext == RequestServerNext /\ UNCHANGED <<localVars, auxVars>>
SpecRequest == RequestInit /\ [][RequestNext]_vars

\* minimax(board, depth, isMaximizing, -Infinity, Infinity, '3x3'): the call returns its
\* score and leaves the array it worked on
SearchMinimax ==
    /\ search.score = << >>
    /\ LET call == minimax(board, search.depth, search.isMaximizing,
                           -Infinity, Infinity, boardSize)
       IN /\ search' = [search EXCEPT !.score = <<call.score>>]
          /\ board' = call.board
    /\ UNCHANGED <<gameMode, gameType, difficulty, playerSymbol, aiSymbol, boardSize,
                   currentPlayer, winner, winningLine, aiTimer, evaluated, aiIndex, inbox>>

\* the boards getAIMove hands to minimax: testBoard holds the O just placed
IsSearchInput(b) ==
    /\ b \in [0..8 -> {"X", "O", Null}]
    /\ \E i \in 0..8 : b[i] = "O"

\* minimax with the full window and depth 0 on every such 3x3 position, either side to
\* move
MinimaxInit ==
    /\ ServerIdle /\ InfinityIdle /\ UltimateIdle
    /\ gameMode = "ai"
    /\ gameType = "normal"
    /\ difficulty = "god"
    /\ playerSymbol = "X"
    /\ aiSymbol = "O"
    /\ boardSize = "3x3"
    /\ IsSearchInput(board)
    /\ currentPlayer = "O"
    /\ winner = Null
    /\ winningLine = Null
    /\ aiTimer = << >>
    /\ evaluated = FALSE
    /\ aiIndex = << >>
    /\ inbox = << >>
    /\ \E isMaximizing \in BOOLEAN :
          search = [depth |-> 0, isMaximizing |-> isMaximizing, score |-> << >>]
MinimaxNext == SearchMinimax /\ UNCHANGED <<serverVars, infinityVars, ultimateVars>>
SpecMinimax == MinimaxInit /\ [][MinimaxNext]_vars

----------------------------------------------------------------------------
(* Claims about the coordinator *)

\* two make_move requests handled back to back (both were in flight together), sent by
\* the two participants of one room, who hold different marks
RacedPair(i, j) ==
    /\ i \in DOMAIN served /\ j \in DOMAIN served /\ i < j
    /\ served[i].room # Null
    /\ served[i].room = served[j].room
    /\ served[i].id # served[j].id
    /\ served[i].mark # served[j].mark

\* C1 as stated: of two concurrent make_move requests of the two participants, exactly
\* one is applied and the other is answered 'Not your turn', in every arrival order
\* (stated here for requests whose cells are in range and empty when they are handled).
C1_ExactlyOneApplied ==
    \A i, j \in DOMAIN served :
        (RacedPair(i, j) /\ served[i].legal /\ served[j].legal) =>
            \/ served[i].res = "applied" /\ served[j].res = "Not your turn"
            \/ served[i].res = "Not your turn" /\ served[j].res = "applied"

\* C1 amended: each request is judged and applied atomically against the active mark of
\* the moment it is handled.  The two are never applied against the same active mark, a
\* request is answered 'Not your turn' exactly when its mark is not the active one, and
\* only the request handled first can get that answer: when the participant without the
\* turn is served first, it is rejected and the other one's legal move is applied; when
\* the participant with the turn is served first and its move is accepted, the turn has
\* passed to the other participant, whose legal move is then applied as well.
C1_AtomicTurnCheck ==
    \A i, j \in DOMAIN served :
        RacedPair(i, j) =>
            /\ (served[i].legal /\ served[j].legal) =>
                   IF served[i].mark = served[i].turn
                   THEN served[i].res = "applied" /\ served[j].res = "applied"
                   ELSE served[i].res = "Not your turn" /\ served[j].res = "applied"
            /\ (served[i].res = "applied" /\ served[j].res = "applied")
                   => served[i].turn # served[j].turn
            /\ (served[i].res = "Not your turn") <=> (served[i].mark # served[i].turn)
            /\ (served[j].res = "Not your turn") <=> (served[j].mark # served[j].turn)
            /\ served[i].res = "Not your turn" => served[j].res \in {"applied", "Invalid move"}
            /\ served[i].res = "applied" => served[j].res \in {"applied", "Invalid move"}
            /\ served[i].res = "Invalid move" => served[j].res = "Not your turn"

\* a race in which the participant without the turn was served first and rejected, and
\* the other participant's move was then applied
C1_Witness ==
    \E i, j \in DOMAIN served :
        /\ RacedPair(i, j)
        /\ served[i].res = "Not your turn"
        /\ served[j].res = "applied"

\* the first check of make_move that fails for the request of s, in the order
\* bound to a room, own turn, legal empty cell ("none" when the move is legal)
C10_FirstFailure(s) ==
    IF \/ s \notin DOMAIN playerToRoom
       \/ playerToRoom[s] \notin DOMAIN rooms
       \/ \A k \in DOMAIN rooms[playerToRoom[s]].players :
              rooms[playerToRoom[s]].players[k].id # s
    THEN "bound"
    ELSE LET room == rooms[playerToRoom[s]]
             k == CHOOSE n \in DOMAIN room.players :
                      /\ room.players[n].id = s
                      /\ \A m \in DOMAIN room.players : room.players[m].id = s => n <= m
         IN IF room.players[k].symbol # room.currentTurn THEN "turn"
            ELSE IF inflight[s].position \notin Cells \/ room.board[inflight[s].position] # Null THEN "cell"
            ELSE "none"

C10_Messages(f) ==
    IF f = "bound" THEN {"Not in any room", "Room not found", "Player not found in room"}
    ELSE IF f = "turn" THEN {"Not your turn"}
    ELSE {"Invalid move"}

\* the step is the make_move handler running on the request of s
C10_Handled(s) == s \in DOMAIN inflight /\ s \notin DOMAIN inflight' /\ s \in connected'

\* C10: make_move checks, in this order, that the requester is bound to a room, that its
\* mark is the active mark and that the cell is in range and empty; at the first failed
\* check one error goes to the requester only, no other socket receives anything, and
\* the rooms (boards, active marks) are unchanged.
C10_ValidationOrder ==
    [][\A s \in Sockets :
          (C10_Handled(s) /\ C10_FirstFailure(s) # "none") =>
              /\ rooms' = rooms
              /\ \A t \in Sockets \ {s} : out'[t] = << >>
              /\ Len(out'[s]) = 1
              /\ out'[s][1].type = "error"
              /\ out'[s][1].msg \in C10_Messages(C10_FirstFailure(s))]_vars

\* a request of the participant whose turn it is was rejected for its cell, in a room
\* with a second participant who is connected and received nothing
C10_Witness ==
    /\ served # << >>
    /\ LET e == served[Len(served)]
       IN /\ e.res = "Invalid move"
          /\ e.room \in DOMAIN rooms
          /\ \E t \in RoomMembers(e.room) \ {e.id} :
                 /\ t \in PlayerIds(rooms[e.room])
                 /\ out[t] = << >>
          /\ out[e.id] = <<ErrorEv("Invalid move")>>

----------------------------------------------------------------------------
(* Claims about the computer opponent *)

\* C2: with the human playing X and every computer move chosen by getAIMove(board, 'god'),
\* no reachable position of the 3x3 game is a win for X.
C2_GodNeverLoses ==
    /\ winner # "X"
    /\ checkWinner(board, boardSize).winner # "X"

\* a game played to its end against the god tier
C2_Witness ==
    /\ difficulty = "god"
    /\ winner \in {"O", "draw"}
    /\ \E i \in DOMAIN board : board[i] = "O"

----------------------------------------------------------------------------
(* Claims about checkWinner *)

\* rows, columns and the two main diagonals of the board under test, as sets of cells
C3_Lines ==
    LET n == SizeNum(boardSize)
    IN {{r * n + c : c \in 0..(n - 1)} : r \in 0..(n - 1)}
       \cup {{r * n + c : r \in 0..(n - 1)} : c \in 0..(n - 1)}
       \cup {{r * n + r : r \in 0..(n - 1)}, {r * n + (n - 1 - r) : r \in 0..(n - 1)}}

C3_LineOf(m) == \E L \in C3_Lines : \A i \in L : board[i] = m

C3_Full == \A i \in DOMAIN board : board[i] # Null

\* position of a line in the order rows, columns, main diagonal, anti-diagonal
C3_Rank(L) ==
    LET n == SizeNum(boardSize)
    IN IF \E r \in 0..(n - 1) : L = {r * n + c : c \in 0..(n - 1)}
       THEN CHOOSE r \in 0..(n - 1) : L = {r * n + c : c \in 0..(n - 1)}
       ELSE IF \E c \in 0..(n - 1) : L = {r * n + c : r \in 0..(n - 1)}
       THEN n + (CHOOSE c \in 0..(n - 1) : L = {r * n + c : r \in 0..(n - 1)})
       ELSE IF L = {r * n + r : r \in 0..(n - 1)} THEN 2 * n
       ELSE 2 * n + 1

C3_Example == [i \in 0..8 |-> IF i \in {0, 1, 2} THEN "X" ELSE IF i \in {4, 5} THEN "O" ELSE Null]

C3_ReportedLineIsComplete ==
    winner \in Players =>
        /\ Range(winningLine) \in C3_Lines
        /\ \A i \in Range(winningLine) : board[i] = winner

C3_DrawAndExample ==
    /\ (winner = "draw") <=> (C3_Full /\ ~C3_LineOf("X") /\ ~C3_LineOf("O"))
    /\ (winner \notin Players) => winningLine = Null
    /\ (boardSize = "3x3" /\ board = C3_Example) => (winner = "X" /\ winningLine = <<0, 1, 2>>)

----------------------------------------------------------------------------
(* Claims about the infinity variant *)

Inf_Live(b, p) == {i \in DOMAIN b : b[i] = p}
Inf_Placed(p) == {i \in DOMAIN placements : placements[i].player = p}
Inf_Entries(p) == {i \in DOMAIN moveHistory : moveHistory[i].player = p}
\* the cell of player p's n-th most recent placement (n >= 1)
Inf_Recent(p, n) ==
    placements[CHOOSE i \in Inf_Placed(p) :
                   Cardinality({j \in Inf_Placed(p) : j >= i}) = n].index
Inf_Completed(b, p) ==
    \E k \in DOMAIN WINNING_COMBINATIONS :
        \A q \in DOMAIN WINNING_COMBINATIONS[k] : b[WINNING_COMBINATIONS[k][q]] = p

\* C4: after a player's k-th accepted move (k >= 1) that player has min(k, 3) marks on
\* the board and min(k, 3) entries in the move history.
C4_LiveMarksMinK3 ==
    \A p \in Players :
        LET k == Cardinality(Inf_Placed(p))
        IN k >= 1 =>
              /\ Cardinality(Inf_Live(board, p)) = Min(k, 3)
              /\ Cardinality(Inf_Entries(p)) = Min(k, 3)

\* both players have moved at least four times
C4_Witness ==
    /\ Cardinality(Inf_Placed("X")) >= 4
    /\ Cardinality(Inf_Placed("O")) >= 4
    /\ Cardinality(Inf_Live(board, "X")) = 3
    /\ Cardinality(Inf_Live(board, "O")) = 3

\* C5: in a move that evicts a mark, the mark is off the board before the terminal
\* evaluation: the result is the one of the board after the eviction, and a declared
\* win's line does not contain the evicted cell.
C5_EvictBeforeEvaluate ==
    [][\A e \in DOMAIN board :
          (board[e] # Null /\ board'[e] = Null) =>
              /\ winner' \in Players =>
                    /\ e \notin Range(winningLine')
                    /\ \A i \in Range(winningLine') : board'[i] = winner'
              /\ (winner' \in Players) <=>
                    (Inf_Completed(board', "X") \/ Inf_Completed(board', "O"))]_vars

\* the last move would have completed a line through the mark it evicted; no win declared
C5_Witness ==
    \E p \in Players :
        /\ Cardinality(Inf_Placed(p)) >= 4
        /\ placements[Len(placements)].player = p
        /\ winner = Null
        /\ board[Inf_Recent(p, 4)] = Null
        /\ Inf_Completed([board EXCEPT ![Inf_Recent(p, 4)] = p], p)
        /\ Inf_Recent(p, 1) \in
               UNION {Range(WINNING_COMBINATIONS[k]) : k \in
                        {k \in DOMAIN WINNING_COMBINATIONS :
                            /\ Inf_Recent(p, 4) \in Range(WINNING_COMBINATIONS[k])
                            /\ \A q \in DOMAIN WINNING_COMBINATIONS[k] :
                                  [board EXCEPT ![Inf_Recent(p, 4)] = p]
                                      [WINNING_COMBINATIONS[k][q]] = p}}

\* C6: when a player holding 3 live marks places a 4th, exactly that player's
\* earliest-placed live mark is cleared and the player's live marks become the three
\* most recent placements; X playing 0, 1, 2 and then 3 leaves cell 0 empty and X on
\* exactly {1, 2, 3}.
C6_EvictsEarliest ==
    [][\A p \in Players :
          (Len(placements') = Len(placements) + 1
           /\ placements'[Len(placements')].player = p
           /\ Cardinality(Inf_Live(board, p)) = 3) =>
              /\ Inf_Live(board', p) = (Inf_Live(board, p) \ {Inf_Recent(p, 3)})
                                           \cup {placements'[Len(placements')].index}
              /\ board'[Inf_Recent(p, 3)] = Null
              /\ fadingSymbols' = <<Inf_Recent(p, 3)>>
              /\ Inf_Live(board', Other(p)) = Inf_Live(board, Other(p))
              /\ Inf_Live(board', p)
                   = {placements'[i].index :
                        i \in {j \in DOMAIN placements' :
                                  /\ placements'[j].player = p
                                  /\ Cardinality({l \in DOMAIN placements' :
                                        l >= j /\ placements'[l].player = p}) <= 3}}
              /\ (placements' = <<[player |-> "X", index |-> 0], [player |-> "X", index |-> 1],
                                  [player |-> "X", index |-> 2], [player |-> "X", index |-> 3]>>)
                    => (board'[0] = Null /\ Inf_Live(board', "X") = {1, 2, 3})]_vars

\* X has played 0, 1, 2 and then 3
C6_Witness ==
    /\ placements = <<[player |-> "X", index |-> 0], [player |-> "X", index |-> 1],
                      [player |-> "X", index |-> 2], [player |-> "X", index |-> 3]>>
    /\ board[0] = Null
    /\ Inf_Live(board, "X") = {1, 2, 3}
    /\ fadingSymbols = <<0>>

----------------------------------------------------------------------------
(* Claims about the ultimate variant *)

Ult_Lines == {Range(L) : L \in GridLines(3)}
Ult_Won(sub, p) == \E L \in Ult_Lines : \A i \in L : sub[i] = p
Ult_Full(sub) == \A i \in DOMAIN sub : sub[i] # Null
\* a sub-board is terminal when it holds a complete line or has no empty cell
Ult_Terminal(sub) == Ult_Won(sub, "X") \/ Ult_Won(sub, "O") \/ Ult_Full(sub)

\* C7: winners[i] changes from null to a result only in a move into sub-board i that
\* brings it to a win or a draw, the result being that outcome; once non-null it keeps
\* its value.
C7_WinnersSetOnceOnTerminal ==
    [][\A i \in 0..8 :
          /\ (ultimateBoard.winners[i] = Null /\ ultimateBoard'.winners[i] # Null) =>
                /\ lastMove'[1] = i
                /\ ultimateBoard'.boards[i] # ultimateBoard.boards[i]
                /\ ~Ult_Terminal(ultimateBoard.boards[i])
                /\ Ult_Terminal(ultimateBoard'.boards[i])
                /\ ultimateBoard'.winners[i] \in Players
                      => Ult_Won(ultimateBoard'.boards[i], ultimateBoard'.winners[i])
                /\ ultimateBoard'.winners[i] \notin Players =>
                      /\ ultimateBoard'.winners[i] = "draw"
                      /\ Ult_Full(ultimateBoard'.boards[i])
                      /\ ~Ult_Won(ultimateBoard'.boards[i], "X")
                      /\ ~Ult_Won(ultimateBoard'.boards[i], "O")
          /\ ultimateBoard.winners[i] # Null
                => ultimateBoard'.winners[i] = ultimateBoard.winners[i]]_vars

\* one sub-board was drawn, another won, and play went on in a third
C7_Witness ==
    /\ \E i \in 0..8 : ultimateBoard.winners[i] = "draw"
    /\ \E i \in 0..8 : ultimateBoard.winners[i] \in Players
    /\ lastMove # << >>
    /\ ultimateBoard.winners[lastMove[1]] = Null

\* C8 as stated: in every reachable state activeBoard is null exactly when the sub-board
\* indexed by the cell of the last move is terminal, and a non-null activeBoard names a
\* sub-board whose meta result is null.
C8_FreeIffTargetTerminal ==
    /\ (ultimateBoard.activeBoard = Free)
          <=> (lastMove # << >> /\ Ult_Terminal(ultimateBoard.boards[lastMove[2]]))
    /\ ultimateBoard.activeBoard # Free
          => ultimateBoard.winners[ultimateBoard.activeBoard] = Null

\* C8 amended: before the first move activeBoard is null although no sub-board is
\* terminal; after a move it is null exactly when the sub-board indexed by the cell of
\* that move is terminal, and otherwise it is that index; a non-null activeBoard names a
\* sub-board that is not terminal and whose meta result is null.
C8_FreeAtStartOrTargetTerminal ==
    /\ lastMove = << >> =>
          /\ ultimateBoard.activeBoard = Free
          /\ \A i \in 0..8 : ~Ult_Terminal(ultimateBoard.boards[i])
    /\ lastMove # << >> =>
          /\ (ultimateBoard.activeBoard = Free)
                <=> Ult_Terminal(ultimateBoard.boards[lastMove[2]])
          /\ ultimateBoard.activeBoard # Free => ultimateBoard.activeBoard = lastMove[2]
    /\ ultimateBoard.activeBoard # Free =>
          /\ ultimateBoard.winners[ultimateBoard.activeBoard] = Null
          /\ ~Ult_Terminal(ultimateBoard.boards[ultimateBoard.activeBoard])

\* the last move pointed at a drawn sub-board, so the pointer is free
C8_Witness ==
    /\ lastMove # << >>
    /\ ultimateBoard.activeBoard = Free
    /\ ultimateBoard.winners[lastMove[2]] = "draw"
    /\ winner = Null

C9_Rejected(b, c) ==
    \/ Ult_Terminal(ultimateBoard.boards[b])
    \/ (ultimateBoard.activeBoard # Free /\ ultimateBoard.activeBoard # b)
    \/ ultimateBoard.boards[b][c] # Null

\* C9: makeUltimateMove returns validMove = false and the state it was given for a move
\* into a terminal sub-board, into a sub-board other than the constrained one, or onto
\* an occupied cell; the cells of a terminal sub-board never change again.
C9_InvalidMovesRejected ==
    /\ [](\A b \in 0..8, c \in 0..8, p \in Players :
            C9_Rejected(b, c) =>
                makeUltimateMove(ultimateBoard, b, c, p)
                    = [newBoard |-> ultimateBoard, validMove |-> FALSE])
    /\ [][/\ \A b \in 0..8 :
               Ult_Terminal(ultimateBoard.boards[b])
                  => ultimateBoard'.boards[b] = ultimateBoard.boards[b]
          /\ (lastClick' # << >> /\ C9_Rejected(lastClick'[1], lastClick'[2]))
                  => (validMove' = FALSE /\ ultimateBoard' = ultimateBoard)]_vars

\* a click on an empty cell of a won sub-board, any board being allowed, was refused
C9_Witness ==
    /\ lastClick # << >>
    /\ validMove = FALSE
    /\ ultimateBoard.activeBoard = Free
    /\ Ult_Terminal(ultimateBoard.boards[lastClick[1]])
    /\ ultimateBoard.boards[lastClick[1]][lastClick[2]] = Null

----------------------------------------------------------------------------
(* Claims about moves in a room *)

Srv_Line(b) ==
    \E L \in Ult_Lines : b[CHOOSE i \in L : TRUE] # Null /\ \A i, j \in L : b[i] = b[j]
Srv_Terminal(b) == Srv_Line(b) \/ \A i \in DOMAIN b : b[i] # Null
Srv_Marks(b, m) == Cardinality({i \in DOMAIN b : b[i] = m})
\* the request of s is about to be accepted: s holds the active mark of its room and
\* asks for an empty cell of the board
Srv_Acceptable(s) ==
    /\ s \in DOMAIN inflight
    /\ s \in DOMAIN playerToRoom
    /\ playerToRoom[s] \in DOMAIN rooms
    /\ \E i \in DOMAIN rooms[playerToRoom[s]].players :
          /\ rooms[playerToRoom[s]].players[i].id = s
          /\ rooms[playerToRoom[s]].players[i].symbol = rooms[playerToRoom[s]].currentTurn
    /\ inflight[s].position \in Cells
    /\ rooms[playerToRoom[s]].board[inflight[s].position] = Null
Srv_Handled(s) == s \in DOMAIN inflight /\ s \in connected' /\ s \notin DOMAIN inflight'

\* C11: an accepted make_move at cell c by the participant holding the active mark sets
\* board[c] to that mark, flips the active mark and sends move_made with the new board
\* and the new currentTurn to both participants.
C11_AcceptedMoveBroadcast ==
    [][\A s \in Sockets :
          (Srv_Handled(s) /\ Srv_Acceptable(s)) =>
              LET code == playerToRoom[s]
                  mark == rooms[code].currentTurn
                  c == inflight[s].position
              IN /\ rooms'[code].board = [rooms[code].board EXCEPT ![c] = mark]
                 /\ rooms'[code].currentTurn = Other(mark)
                 /\ rooms'[code].players = rooms[code].players
                 /\ Len(rooms[code].players) = 2
                 /\ \A i \in DOMAIN rooms[code].players :
                       LET t == rooms[code].players[i].id
                       IN /\ Len(out'[t]) >= 1
                          /\ out'[t][1] = [type |-> "move_made", position |-> c,
                                           symbol |-> mark, board |-> rooms'[code].board,
                                           currentTurn |-> Other(mark)]]_vars

\* s1 as X has played cell 4 in a fresh room: both got board[4] = X, currentTurn = O
C11_Witness ==
    /\ "R1" \in DOMAIN rooms
    /\ rooms["R1"].board = [EmptyBoard EXCEPT ![4] = "X"]
    /\ rooms["R1"].currentTurn = "O"
    /\ \A t \in {"s1", "s2"} :
          out[t] = <<[type |-> "move_made", position |-> 4, symbol |-> "X",
                      board |-> [EmptyBoard EXCEPT ![4] = "X"], currentTurn |-> "O"]>>

\* C12: once a room's board is terminal (a completed line or a full board), every later
\* make_move leaves the board and the active mark unchanged.
C12_NoMoveAfterTerminal ==
    [][\A code \in DOMAIN rooms :
          (code \in DOMAIN rooms' /\ Srv_Terminal(rooms[code].board)) =>
              /\ rooms'[code].board = rooms[code].board
              /\ rooms'[code].currentTurn = rooms[code].currentTurn]_vars

----------------------------------------------------------------------------
(* Claims about rooms and their participants *)

\* C14: the participant list of a room holds each identity at most once, also after a
\* join_room by an identity already bound to the room.
C14_NoDuplicateParticipant ==
    \A code \in DOMAIN rooms :
        \A i, j \in DOMAIN rooms[code].players :
            rooms[code].players[i].id = rooms[code].players[j].id => i = j

Srv_Created(s, code) ==
    Len(out'[s]) = 1 /\ out'[s][1] = [type |-> "room_created", roomCode |-> code]

\* C15: a room disappears only when its last participant leaves or disconnects, and a
\* create_room under a code already in use keeps the existing room's participants, board
\* and active mark.
C15_RoomsOnlyRemovedByLastLeave ==
    [][\A code \in DOMAIN rooms :
          /\ code \notin DOMAIN rooms' =>
                \E s \in connected :
                    /\ PlayerIds(rooms[code]) = {s}
                    /\ s \notin connected' \/ code \notin Range(socketRooms'[s])
          /\ (\E s \in Sockets : Srv_Created(s, code)) =>
                /\ code \in DOMAIN rooms'
                /\ rooms'[code] = rooms[code]]_vars

Srv_Bound(s, rs) == {code \in DOMAIN rs : s \in PlayerIds(rs[code])}
Srv_Sent(o, t, type) == \E i \in DOMAIN o[t] : o[t][i].type = type

\* C16: after leave_room or disconnect the identity is bound to no room and is not in
\* the matchmaking queue, the remaining participants of its rooms have been sent
\* player_left, and no room is left with zero participants.
C16_LeaveUnbinds ==
    [][\A s \in Sockets :
          (LeaveRoom(s) \/ Disconnect(s)) =>
              /\ Srv_Bound(s, rooms') = {}
              /\ s \notin Range(waitingPlayers')
              /\ \A code \in Srv_Bound(s, rooms) :
                    \A t \in (PlayerIds(rooms[code]) \cap connected) \ {s} :
                        Srv_Sent(out', t, "player_left")
              /\ \A code \in DOMAIN rooms' : Len(rooms'[code].players) > 0]_vars

\* the queue without the identities whose connection is gone
Srv_LiveQueue == SeqFilter(waitingPlayers, connected)

\* C17: find_random_match by a requester not yet queued pairs it with the earliest live
\* queued identity in a new room (queued identity X, requester O, game_start with its
\* mark to each) and removes that identity from the queue, or, when nobody live is
\* queued, appends the requester and answers waiting_for_match; a requester already
\* queued stays queued once and is paired with nobody; the queue never holds an
\* identity twice.
C17_RandomMatch ==
    /\ [](\A i, j \in DOMAIN waitingPlayers : waitingPlayers[i] = waitingPlayers[j] => i = j)
    /\ [][\A s \in Sockets :
             FindRandomMatch(s) =>
                 IF s \in Range(waitingPlayers)
                 THEN /\ waitingPlayers' = Srv_LiveQueue
                      /\ rooms' = rooms
                      /\ out'[s] = <<[type |-> "waiting_for_match"]>>
                 ELSE IF Srv_LiveQueue # << >>
                 THEN LET first == Srv_LiveQueue[1]
                          pair == <<[id |-> first, symbol |-> "X"], [id |-> s, symbol |-> "O"]>>
                      IN /\ first # s
                         /\ waitingPlayers' = Tail(Srv_LiveQueue)
                         /\ \E code \in Codes \ DOMAIN rooms :
                               /\ rooms' = MapSet(rooms, code,
                                                  [players |-> pair, currentTurn |-> "X",
                                                   board |-> EmptyBoard])
                               /\ out'[first] = <<GameStartEv(code, "X", "X", pair)>>
                               /\ out'[s] = <<GameStartEv(code, "O", "X", pair)>>
                 ELSE /\ waitingPlayers' = Append(Srv_LiveQueue, s)
                      /\ rooms' = rooms
                      /\ out'[s] = <<[type |-> "waiting_for_match"]>>]_vars

\* s2 was queued and s1 asked for a match: a room with s2 as X and s1 as O, both told
C17_Witness ==
    /\ "M1" \in DOMAIN rooms
    /\ rooms["M1"].players = <<[id |-> "s2", symbol |-> "X"], [id |-> "s1", symbol |-> "O"]>>
    /\ waitingPlayers = << >>
    /\ out["s2"] = <<GameStartEv("M1", "X", "X", rooms["M1"].players)>>
    /\ out["s1"] = <<GameStartEv("M1", "O", "X", rooms["M1"].players)>>

Srv_TwoLive(code) ==
    /\ code \in DOMAIN rooms
    /\ Len(rooms[code].players) = 2
    /\ PlayerIds(rooms[code]) \subseteq connected
Srv_Unchanged(code) ==
    /\ rooms' = rooms
    /\ playerToRoom' = playerToRoom
    /\ socketRooms' = socketRooms
Srv_AtMostTwo == \A code \in DOMAIN rooms : Len(rooms[code].players) <= 2

\* C18 as stated: every room has at most two participant bindings, and any join_room on
\* a room whose two bindings are both live is answered 'Room is full' and leaves the room
\* unchanged.
C18_FullForEveryRequester ==
    /\ []Srv_AtMostTwo
    /\ [][\A s \in Sockets, code \in Codes :
             (JoinRoom(s, code) /\ Srv_TwoLive(code)) =>
                 /\ out'[s] = <<ErrorEv("Room is full")>>
                 /\ Srv_Unchanged(code)]_vars

\* C18, amended: every room has at most two participant bindings, and a join_room by an
\* identity that is not bound to the room, on a room whose two bindings are both live, is
\* answered 'Room is full' and leaves the room unchanged.
C18_FullForOutsiders ==
    /\ []Srv_AtMostTwo
    /\ [][\A s \in Sockets, code \in Codes :
             (JoinRoom(s, code) /\ Srv_TwoLive(code) /\ s \notin PlayerIds(rooms[code])) =>
                 /\ out'[s] = <<ErrorEv("Room is full")>>
                 /\ Srv_Unchanged(code)]_vars

\* s3 has been refused by the room of s1 and s2
C18_Witness ==
    /\ "R1" \in DOMAIN rooms
    /\ rooms["R1"].players = <<[id |-> "s1", symbol |-> "X"], [id |-> "s2", symbol |-> "O"]>>
    /\ {"s1", "s2", "s3"} \subseteq connected
    /\ out["s3"] = <<ErrorEv("Room is full")>>

\* the slots of a room whose connection is gone
Srv_DeadSlots(code) ==
    {i \in DOMAIN rooms[code].players : rooms[code].players[i].id \notin connected}

\* C19: a join_room by an identity not bound to a two-slot room that has a dead slot puts
\* the requester into the first dead slot with that slot's mark; the room keeps two
\* slots, the other slot, the board and the active mark.
C19_ReplacementOnJoin ==
    [][\A s \in Sockets, code \in Codes :
          (/\ JoinRoom(s, code)
           /\ code \in DOMAIN rooms
           /\ Len(rooms[code].players) = 2
           /\ s \notin PlayerIds(rooms[code])
           /\ Srv_DeadSlots(code) # {}) =>
              LET i == CHOOSE k \in Srv_DeadSlots(code) : \A l \in Srv_DeadSlots(code) : k <= l
                  mark == rooms[code].players[i].symbol
              IN /\ code \in DOMAIN rooms'
                 /\ Len(rooms'[code].players) = 2
                 /\ rooms'[code].players[i] = [id |-> s, symbol |-> mark]
                 /\ rooms'[code].players[3 - i] = rooms[code].players[3 - i]
                 /\ rooms'[code].board = rooms[code].board
                 /\ rooms'[code].currentTurn = rooms[code].currentTurn
                 /\ out'[s] = <<GameStartEv(code, mark, rooms[code].currentTurn,
                                            rooms'[code].players)>>]_vars

\* s3 has taken the slot and the mark O of the disconnected s2 in a game under way
C19_Witness ==
    /\ "R1" \in DOMAIN rooms
    /\ rooms["R1"].players = <<[id |-> "s1", symbol |-> "X"], [id |-> "s3", symbol |-> "O"]>>
    /\ rooms["R1"].board[0] = "X"
    /\ rooms["R1"].currentTurn = "O"
    /\ "s2" \in closed
    /\ out["s3"] = <<GameStartEv("R1", "O", "O", rooms["R1"].players)>>

----------------------------------------------------------------------------
(* Claims about the computer's move *)

AI_Empty(b) == {i \in DOMAIN b : b[i] = Null}

\* C20: on every board and tier getAIMove returns -1 exactly when the board has no empty
\* cell and otherwise the index of an empty cell; the caller places the computer's mark
\* on the returned cell and leaves the game as it was when -1 is returned.
C20_AIMoveIsEmptyCell ==
    [][aiIndex' # aiIndex =>
          /\ Len(aiIndex') = 1
          /\ aiIndex'[1] = -1 <=> AI_Empty(board) = {}
          /\ aiIndex'[1] # -1 => aiIndex'[1] \in AI_Empty(board)
          /\ IF aiIndex'[1] = -1
             THEN /\ board' = board
                  /\ winner' = winner
                  /\ currentPlayer' = currentPlayer
             ELSE board' = [board EXCEPT ![aiIndex'[1]] = aiSymbol]]_vars

\* -1 has come back on a full board
C20_Witness ==
    /\ aiIndex = <<-1>>
    /\ AI_Empty(board) = {}
    /\ winner = Null

\* the computer has just been asked for a move
AI_Called == aiIndex' # aiIndex
AI_Line(b, m, size) ==
    \E L \in GridLines(SizeNum(size)) : \A k \in DOMAIN L : b[L[k]] = m
\* the empty cells of b at which mark m would complete a line
AI_WinningCells(b, m, size) ==
    {i \in AI_Empty(b) : AI_Line([b EXCEPT ![i] = m], m, size)}

C27_WinBeforeBlock ==
    [][(AI_Called /\ difficulty \in {"hard", "god"}
         /\ AI_WinningCells(board, "O", boardSize) # {}) =>
          aiIndex'[1] \in AI_WinningCells(board, "O", boardSize)]_vars

\* C28: for the hard and god tiers, when O has no immediate winning cell and X has a cell
\* that would complete a line for X, getAIMove returns a cell at which X would have won.
C28_ThreatBlocked ==
    [][(AI_Called /\ difficulty \in {"hard", "god"}
         /\ AI_WinningCells(board, "O", boardSize) = {}
         /\ AI_WinningCells(board, "X", boardSize) # {}) =>
          aiIndex'[1] \in AI_WinningCells(board, "X", boardSize)]_vars

\* the hard tier has put O on a cell where X would have completed a line, on a board
\* that had no line and no winning cell for O
C28_Witness ==
    /\ difficulty = "hard"
    /\ Len(aiIndex) = 1
    /\ aiIndex[1] \in DOMAIN board
    /\ board[aiIndex[1]] = "O"
    /\ LET before == [board EXCEPT ![aiIndex[1]] = Null]
       IN /\ ~AI_Line(before, "X", boardSize)
          /\ ~AI_Line(before, "O", boardSize)
          /\ AI_WinningCells(before, "O", boardSize) = {}
          /\ aiIndex[1] \in AI_WinningCells(before, "X", boardSize)

----------------------------------------------------------------------------
(* Claims about what the coordinator announces *)

Srv_LineOf(b, m) == \E L \in Ult_Lines : \A i \in L : b[i] = m
\* the results a terminal board can be announced with
Srv_Results(b) ==
    IF \E m \in Players : Srv_LineOf(b, m)
    THEN {m \in Players : Srv_LineOf(b, m)}
    ELSE {"draw"}

\* C22: an accepted move that leaves the board terminal is announced to both participants
\* by move_made followed by a separate game_over carrying the result; an accepted move
\* that leaves it open is announced by move_made alone.
C22_GameOverAfterMoveMade ==
    [][\A s \in Sockets :
          (Srv_Handled(s) /\ Srv_Acceptable(s)) =>
              LET code == playerToRoom[s]
              IN \A i \in DOMAIN rooms[code].players :
                    LET o == out'[rooms[code].players[i].id]
                    IN /\ Len(o) >= 1
                       /\ o[1].type = "move_made"
                       /\ o[1].board = rooms'[code].board
                       /\ IF Srv_Terminal(rooms'[code].board)
                          THEN /\ Len(o) = 2
                               /\ o[2].type = "game_over"
                               /\ o[2].winner \in Srv_Results(rooms'[code].board)
                          ELSE Len(o) = 1]_vars

\* the ninth move has filled the board without a line: both were told move_made and
\* then game_over with a draw
C22_Witness ==
    /\ "R1" \in DOMAIN rooms
    /\ \A i \in Cells : rooms["R1"].board[i] # Null
    /\ \A m \in Players : ~Srv_LineOf(rooms["R1"].board, m)
    /\ \A t \in {"s1", "s2"} :
          /\ Len(out[t]) = 2
          /\ out[t][1].type = "move_made"
          /\ out[t][2] = [type |-> "game_over", winner |-> "draw"]

----------------------------------------------------------------------------
(* Claims about the computer's deferred move *)

\* C23: a computer move scheduled after a human move has no effect on the match once the
\* match has reached a terminal state: the callback that fires on a finished game leaves
\* board, result and turn as they are.
C23_NoMoveAfterTerminal ==
    [][(winner # Null /\ AITimerFires) =>
          UNCHANGED <<board, winner, winningLine, currentPlayer>>]_vars

----------------------------------------------------------------------------
(* Claims about the preview and the frame of an eviction *)

\* a move has just been made; its player and cell
Inf_Moved == Len(placements') = Len(placements) + 1
Inf_Mover == placements'[Len(placements')].player
Inf_Cell == placements'[Len(placements')].index
Inf_HistoryOf(h, p) == SelectSeq(h, LAMBDA m : m.player = p)

\* C24: after a move by P the pending eviction is the oldest live mark of the other
\* player exactly when that player holds 3 live marks and is empty otherwise; that mark is
\* still on the board, and the mark a move removes is the one announced before it.
C24_PendingEviction ==
    [][Inf_Moved =>
          LET P == Inf_Mover
              Q == Other(P)
          IN /\ IF Cardinality(Inf_Live(board', Q)) = 3
                THEN /\ nextFadingSymbols' = <<Inf_Recent(Q, 3)>>
                     /\ board'[Inf_Recent(Q, 3)] = Q
                ELSE nextFadingSymbols' = << >>
             /\ \A e \in DOMAIN board :
                   (board[e] = P /\ board'[e] # P) => nextFadingSymbols = <<e>>
             /\ \A e \in Range(nextFadingSymbols) : board[e] = P /\ board'[e] = Null]_vars

\* O's oldest mark was announced after X's move and is gone after O's own fourth move
C24_Witness ==
    /\ Cardinality(Inf_Placed("O")) = 4
    /\ placements[Len(placements)].player = "O"
    /\ board[Inf_Recent("O", 4)] = Null
    /\ Cardinality(Inf_Live(board, "X")) = 3
    /\ nextFadingSymbols = <<Inf_Recent("X", 3)>>

\* C25: a move by P changes no cell other than the one P plays and, on overflow, the
\* cell of P's own oldest mark, and leaves the other player's history entries as they
\* were.
C25_OtherPlayerUntouched ==
    [][Inf_Moved =>
          LET P == Inf_Mover
              Q == Other(P)
          IN /\ board'[Inf_Cell] = P
             /\ \A e \in DOMAIN board \ {Inf_Cell} :
                   board'[e] # board[e] =>
                       /\ board[e] = P
                       /\ board'[e] = Null
                       /\ Cardinality(Inf_Live(board, P)) = 3
                       /\ e = Inf_Recent(P, 3)
             /\ Inf_Live(board', Q) = Inf_Live(board, Q)
             /\ Inf_HistoryOf(moveHistory', Q) = Inf_HistoryOf(moveHistory, Q)]_vars

\* X's fourth move has cleared X's oldest mark while O keeps three marks
C25_Witness ==
    /\ Cardinality(Inf_Placed("X")) = 5
    /\ placements[Len(placements)].player = "X"
    /\ board[Inf_Recent("X", 4)] = Null
    /\ Cardinality(Inf_Live(board, "O")) = 3
    /\ Len(Inf_HistoryOf(moveHistory, "O")) = 3

----------------------------------------------------------------------------
(* Claims about the meta-board *)

Meta_Line(m) == \E L \in Ult_Lines : \A i \in L : ultimateBoard.winners[i] = m
Meta_Resolved == \A i \in 0..8 : ultimateBoard.winners[i] # Null

----------------------------------------------------------------------------
(* Claims about moves and joins in rooms that are not full *)

\* C29: a make_move is applied only in a room with two bound participants; in a room
\* with a single bound participant no step changes the board or the active mark.
C29_NoMoveWithOneParticipant ==
    [][\A code \in DOMAIN rooms :
          (Len(rooms[code].players) < 2 /\ code \in DOMAIN rooms') =>
              /\ rooms'[code].board = rooms[code].board
              /\ rooms'[code].currentTurn = rooms[code].currentTurn]_vars

\* C30: every game_start sent by a join_room reports as currentTurn the active mark the
\* room has at that moment.
C30_GameStartReportsActiveMark ==
    [][\A s \in Sockets, code \in Codes :
          (JoinRoom(s, code) /\ code \in DOMAIN rooms') =>
              \A t \in Sockets : \A i \in DOMAIN out'[t] :
                  out'[t][i].type = "game_start" =>
                      out'[t][i].currentTurn = rooms'[code].currentTurn]_vars

----------------------------------------------------------------------------
(* Claims about the search of the god tier *)

AI_Greatest(S) == CHOOSE x \in S : \A y \in S : y <= x
AI_Least(S) == CHOOSE x \in S : \A y \in S : x <= y
\* the minimax score of putting O on cell c of board b
AI_Score(b, c, size) ==
    minimax([b EXCEPT ![c] = "O"], 0, FALSE, -Infinity, Infinity, size).score
\* the empty cells of b whose score is maximal
AI_BestCells(b, size) ==
    LET scored == {<<c, AI_Score(b, c, size)>> : c \in AI_Empty(b)}
        best == AI_Greatest({p[2] : p \in scored})
    IN {p[1] : p \in {q \in scored : q[2] = best}}

\* C31: for the god tier, when no empty cell completes a line for O or for X, getAIMove
\* returns the lowest-index empty cell among those whose minimax score is maximal.
C31_GodTakesFirstBest ==
    [][(AI_Called /\ difficulty = "god"
         /\ AI_Empty(board) # {}
         /\ AI_WinningCells(board, "O", boardSize) = {}
         /\ AI_WinningCells(board, "X", boardSize) = {}) =>
          aiIndex'[1] = AI_Least(AI_BestCells(board, boardSize))]_vars

\* the god tier has answered on the board with X on 4 and 8 and O on 0, where nothing
\* is forced, cells 2 and 6 tie for the best score and the lower cell 1 scores less
C31_Witness ==
    /\ difficulty = "god"
    /\ boardSize = "3x3"
    /\ aiIndex = <<2>>
    /\ board = [EmptyBoard EXCEPT ![4] = "X", ![8] = "X", ![0] = "O", ![2] = "O"]
    /\ LET before == [board EXCEPT ![2] = Null]
       IN /\ AI_BestCells(before, "3x3") = {2, 6}
          /\ AI_WinningCells(before, "O", "3x3") = {}
          /\ AI_WinningCells(before, "X", "3x3") = {}

\* minimax without pruning: every empty cell is tried
RECURSIVE AI_Exhaustive(_, _, _)
AI_Exhaustive(b, depth, isMaximizing) ==
    LET w == checkWinner(b, "3x3").winner
    IN IF w = "O" THEN 10 - depth
       ELSE IF w = "X" THEN depth - 10
       ELSE IF w = "draw" THEN 0
       ELSE IF isMaximizing
       THEN AI_Greatest({AI_Exhaustive([b EXCEPT ![c] = "O"], depth + 1, FALSE) :
                            c \in AI_Empty(b)})
       ELSE AI_Least({AI_Exhaustive([b EXCEPT ![c] = "X"], depth + 1, TRUE) :
                         c \in AI_Empty(b)})

\* C32: called with alpha = -Infinity and beta = Infinity, minimax returns on every 3x3
\* position the score of the search without pruning (10 - d for a win of O at depth d,
\* d - 10 for a win of X, 0 for a draw, O maximizing and X minimizing), and the board
\* it was given is unchanged when the call returns.
C32_PruningKeepsScoreAndBoard ==
    [][search' # search =>
          /\ search'.score = <<AI_Exhaustive(board, search.depth, search.isMaximizing)>>
          /\ board' = board]_vars

\* the search has returned a draw on the board that holds a single O in the centre, X
\* to move
C32_Witness ==
    /\ ~search.isMaximizing
    /\ search.score = <<0>>
    /\ board = [EmptyBoard EXCEPT ![4] = "O"]

----------------------------------------------------------------------------
(* Claims about the client of a game played through the coordinator *)

\* C33: once the client has handled every move_made delivered to it, the echo of its
\* own move included, its board is the board of the room and its currentPlayer is the
\* active mark of the room.
C33_ClientMatchesRoom ==
    (/\ gameMode = "online"
     /\ inbox = << >>
     /\ RemoteSocket \notin DOMAIN inflight) =>
        /\ board = rooms["R1"].board
        /\ currentPlayer = rooms["R1"].currentTurn

----------------------------------------------------------------------------
(* Claims about the registry of rooms *)

\* the rooms that list identity s among their participants
Srv_ListedIn(s) == {code \in DOMAIN rooms : s \in PlayerIds(rooms[code])}

\* C34: in every reachable state of the coordinator an identity is listed as a
\* participant of at most one room, and playerToRoom records that room for it.
C34_OneRoomPerIdentity ==
    \A s \in Sockets :
        /\ Cardinality(Srv_ListedIn(s)) <= 1
        /\ Srv_ListedIn(s) # {} =>
              /\ s \in DOMAIN playerToRoom
              /\ playerToRoom[s] \in Srv_ListedIn(s)

\* C35: once every identity bound to a room has disconnected the room is gone: after
\* the disconnect handlers have run no room is left whose participants are all closed
\* connections.
C35_NoRoomOfDeadConnections ==
    \A code \in DOMAIN rooms : \E s \in PlayerIds(rooms[code]) : s \in connected

----------------------------------------------------------------------------
(* Claims about the fields of a request *)

\* C36: the mark written by an accepted make_move and reported in move_made is the mark
\* bound to the requesting connection in its room; whether the request is accepted and
\* what the board and the active mark become depend on the position, the requester and
\* the room only, never on the symbol and board fields of the request.
C36_RequestFieldsIgnored ==
    [][\A s \in Sockets :
          Srv_Handled(s) =>
              IF Srv_Acceptable(s)
              THEN LET code == playerToRoom[s]
                       mark == FindPlayer(rooms[code], s).symbol
                   IN /\ rooms'[code].board =
                            [rooms[code].board EXCEPT ![inflight[s].position] = mark]
                      /\ rooms'[code].currentTurn = Other(mark)
                      /\ \A t \in Sockets : \A i \in DOMAIN out'[t] :
                            out'[t][i].type = "move_made" => out'[t][i].symbol = mark
                      /\ Srv_Sent(out', s, "move_made")
              ELSE rooms' = rooms]_vars

\* a request that named the other participant's mark has been accepted and the mark of
\* the requester written
C36_Witness ==
    /\ served # << >>
    /\ LET e == served[Len(served)]
       IN /\ e.res = "applied"
          /\ e.data.symbol # e.mark
          /\ e.room \in DOMAIN rooms
          /\ rooms[e.room].board[e.data.position] = e.mark
          /\ \E i \in DOMAIN out[e.id] :
                /\ out[e.id][i].type = "move_made"
                /\ out[e.id][i].symbol = e.mark

----------------------------------------------------------------------------
(* Claims about the number of marks in the eviction variant *)

Inf_Occupied == {i \in DOMAIN board : board[i] # Null}
Inf_EntriesAt(i) == {k \in DOMAIN moveHistory : moveHistory[k].index = i}

\* C37: in the eviction variant on the 3x3 board the board never holds more than 6
\* marks, every occupied cell has exactly one history entry, which is of the player
\* whose mark it holds, and every history entry has its mark on the board; so
\* checkWinner never reports a draw and a match ends only with a line of the winner.
C37_SixMarksNoDraw ==
    /\ Cardinality(Inf_Occupied) <= 6
    /\ \A i \in Inf_Occupied :
          /\ Cardinality(Inf_EntriesAt(i)) = 1
          /\ \A k \in Inf_EntriesAt(i) : moveHistory[k].player = board[i]
    /\ \A k \in DOMAIN moveHistory : moveHistory[k].index \in Inf_Occupied
    /\ checkWinner(board, boardSize).winner # "draw"
    /\ winner # "draw"
    /\ winner # Null => (winner \in Players /\ Srv_LineOf(board, winner))

\* six marks are on the board after an eviction, and the match has ended with a win
C37_Witness ==
    /\ gameType = "infinity"
    /\ Cardinality(Inf_Occupied) = 6
    /\ Len(placements) > 6
    /\ winner \in Players

----------------------------------------------------------------------------
(* Claims about the moves left in the ultimate variant *)

\* sub-board b is unresolved and has an empty cell
Ult_Playable(b) ==
    /\ ultimateBoard.winners[b] = Null
    /\ \E c \in 0..8 : ultimateBoard.boards[b][c] = Null

\* C38: in every reachable state in which checkUltimateWinner reports no result some
\* move is accepted by makeUltimateMove: a constrained pointer names an unresolved
\* sub-board with an empty cell, and with a free pointer some unresolved sub-board has
\* an empty cell.
C38_SomeMoveAccepted ==
    checkUltimateWinner(ultimateBoard).winner = Null =>
        /\ \E b \in 0..8, c \in 0..8 :
              makeUltimateMove(ultimateBoard, b, c, currentPlayer).validMove
        /\ IF ultimateBoard.activeBoard # Free
           THEN Ult_Playable(ultimateBoard.activeBoard)
           ELSE \E b \in 0..8 : Ult_Playable(b)

\* sub-board 0 has been filled without a line and the move that filled it pointed back
\* at it: the pointer is free and the game goes on
C38_Witness ==
    /\ boardSize = "ultimate"
    /\ ultimateBoard.winners[0] = "draw"
    /\ lastMove = <<0, 0>>
    /\ ultimateBoard.activeBoard = Free
    /\ checkUltimateWinner(ultimateBoard).winner = Null

====
